---------------------------- MODULE Spec2Model ----------------------------
(***************************************************************************)
(* Claude Usage Monitor PWA: secure storage, TTL cache and session         *)
(* management.                                                             *)
(*                                                                         *)
(* Two deployments of the application live in the repository and never run *)
(* together: the "pwa" deployment (StorageManager over IndexedDB with a    *)
(* localStorage fallback, ManualAuthManager, GoogleAuthManager,            *)
(* AuthManager) and the "monitor" deployment (ClaudeUsageMonitor with the  *)
(* credential StorageManager over localStorage / sessionStorage).  The     *)
(* variable app says which one is loaded.                                  *)
(*                                                                         *)
(* Time is counted in ticks of five minutes.  Asynchronous handlers        *)
(* complete within one tick: the clock advances only between handlers.     *)
(***************************************************************************)
EXTENDS Integers, Sequences, FiniteSets, TLC

(***************************************************************************)
(* Bounds of the model                                                     *)
(***************************************************************************)
MaxTicks == 2
MaxRestarts == 1
MaxKeys == 2

(***************************************************************************)
(* Durations, in ticks                                                     *)
(***************************************************************************)
SecPerTick == 5 * 60
Ticks(seconds) == seconds \div SecPerTick

OneDay == Ticks(24 * 60 * 60)
PasswordTTL(rememberMe) == Ticks((IF rememberMe THEN 30 ELSE 1) * 24 * 60 * 60)
ApiKeyTTL == Ticks(7 * 24 * 60 * 60)
TokenMargin == Ticks(5 * 60)
sessionTimeout == Ticks(24 * 60 * 60)
GoogleTokenLifetime == Ticks(60 * 60)

\* The clock steps the environment may take between two handlers.
Jumps == {OneDay - 1, PasswordTTL(TRUE)}

(***************************************************************************)
(* Values                                                                  *)
(***************************************************************************)
Null == [null |-> TRUE]
NoKey == 0

LatinEmail == "ann@example.com"
WideEmail == "wide-chars@example.com"
Emails == {LatinEmail, WideEmail}
\* btoa accepts Latin-1 text only; WideEmail stands for an address with
\* characters above U+00FF.
IsLatin1(profile) == profile.email # WideEmail

AuthTypes == {"password", "api_key"}
ApiKey == "sk-ant-api03"

CacheKeys == {"usage_summary", "chart_data"}
Payloads == {"v1", "v2"}
\* the null getCacheData answers with on a miss
NullData == "null"
\* DataCollector.cacheData: five minutes for the summary, ten for the chart
CacheTTL(key) ==
    IF key = "usage_summary" THEN Ticks(300000 \div 1000)
    ELSE Ticks(600000 \div 1000)
CacheJumps == {Ticks(5 * 60), Ticks(10 * 60)}

\* The first-run scenario is over.
ScenarioOff == [phase |-> "off", user |-> Null]

VARIABLES
    app,            \* "pwa" or "monitor": the deployment that is loaded
    now,            \* Date.now(), in ticks
    ticks,          \* number of clock steps taken
    restarts,       \* number of page loads after the first
    cryptoAvail,    \* window.crypto.subtle exists (a secure context)
    \* ---- persistent storage of the pwa deployment
    idbSecure,      \* IndexedDB store secureData, key claude_user_profile
    lsSecure,       \* localStorage secure_claude_user_profile
    lsEncKey,       \* localStorage claude_encryption_key (0: absent)
    keyCounter,     \* number of keys generated so far
    \* ---- StorageManager (pwa), in memory
    db,             \* this.db is set
    encryptionKey,  \* this.encryptionKey (0: null)
    storagePc,      \* position of StorageManager.init
    \* ---- ManualAuthManager
    manualUser,     \* this.currentUser
    manualPc,       \* position of checkExistingSession
    \* ---- GoogleAuthManager
    googleUser,
    googlePc,
    \* ---- AuthManager
    authUser,       \* this.currentUser
    authMethod,     \* this.authMethod
    authPc,         \* position of AuthManager.init
    screen,         \* which screen is active
    errorShown,     \* an error toast has been shown to the user
    \* ---- the monitor deployment
    monCreds,       \* localStorage claude_monitor_credentials (decrypted view)
    monSession,     \* sessionStorage claude_monitor_session
    monScreen,      \* currentScreen
    monPc,          \* position of ClaudeUsageMonitor.init
    \* ---- StorageManager (pwa): the cache collection
    idbCache,       \* IndexedDB store cache, by key
    lsCache,        \* localStorage cache_<key>, by key
    cacheResult,    \* what the last getCacheData returned, in this tick
    lastSet,        \* by key, the record of the latest setCacheData
    \* ---- history
    lastRestore,    \* the record a restore operation installed in this tick
    remembered,     \* the first-run scenario: its phase and its login
    readFailed,     \* the managers whose restore met a failed read or
                    \* decryption, until the user acts or the page reloads
    loggedOut,      \* an explicit logout has completed, no login since
    \* ---- CryptoUtils.encrypt / decrypt and StorageManager.encryptData /
    \* ---- decryptData: one encryption and the decryptions of its blob
    encInput,       \* the service, the value and the password or key
    encBlob,        \* what the encryption returned, as it is now
    encOut,         \* what the last decryption returned or threw
    \* ---- StorageManager (pwa): the application's own secure reads
    secOut,         \* what the last getSecureData met and returned
    \* ---- StorageManager (pwa): the other collections
    idbUsage,       \* IndexedDB store usageData
    lsUsage,        \* localStorage usage_data
    idbPrefs,       \* IndexedDB store preferences
    lsPrefs,        \* localStorage pref_<key>
    idbQueue,       \* IndexedDB store syncQueue
    lsQueue,        \* localStorage sync_queue
    backends,       \* the backends that served an operation of this session
    \* ---- the service worker: fetch events
    swCaches,       \* the entries of the static and the dynamic cache
    swOldCaches,    \* the names of the other caches in Cache Storage
    swState,        \* the worker: parsed, installed, activated
    skipWaiting,    \* the worker has called skipWaiting
    msgOut,         \* the last message event: type, reply
    fetchOut,       \* the last fetch event: request, strategy, response
    \* ---- the service worker: background sync
    pendingSync,    \* object store pendingSync of the worker's database
    pendingKey,     \* its key generator: the id given out last
    syncPc,         \* position of syncUsageData
    pendingData,    \* syncUsageData's local pendingData, what is left of it
    processed,      \* the items passed to processUsageData, in order
    queuedAtSync,   \* the storage layer's sync queue when the sync started
    \* ---- the updates of the usage data
    usageSerial,    \* the records a caller has numbered so far
    isUpdating,     \* DataCollector: this.isUpdating
    dcCalls,        \* DataCollector: the calls of performUpdate under way
    manualCalls,    \* DataCollector: addManualEntry, by entry
    pendingStore,   \* the cache record pending_manual_entries
    rtCalls,        \* ClaudeUsageMonitor: the updates under way
    monPaused,      \* ClaudeUsageMonitor: this.isPaused
    monUsage,       \* ClaudeUsageMonitor: the usage data saved last
    \* ---- StorageManager (pwa): queries
    queryOut,       \* the last getUsageData: filters, what it read, result
    \* ---- StorageManager (pwa): migrateLegacyData
    lsLegacy,       \* localStorage: the items under the legacy keys
    secExtra,       \* the secure collection under the keys of the import
    migratePc,      \* position of migrateLegacyData in this page load
    imports,        \* by legacy key, the values handed to setSecureData
    \* ---- StorageManager (pwa): the sweep of the cache
    sweep,          \* the call of cleanExpiredCache: position, starting
                    \* time, whether its transaction failed
    \* ---- Application and DataCollector (pwa), as the auth events reach them
    isAuthenticated,    \* Application.state.isAuthenticated
    updateInterval      \* DataCollector: this.updateInterval is set

timeVars == <<now, ticks>>
persistVars == <<idbSecure, lsSecure, lsEncKey, keyCounter>>
storageVars == <<db, encryptionKey, storagePc>>
manualVars == <<manualUser, manualPc>>
googleVars == <<googleUser, googlePc>>
authVars == <<authUser, authMethod, authPc, screen, errorShown>>
histVars == <<lastRestore, remembered, readFailed, loggedOut>>
monitorVars == <<monCreds, monSession, monScreen, monPc>>
pwaVars == <<persistVars, storageVars, manualVars, googleVars, authVars>>
cacheVars == <<idbCache, lsCache, cacheResult, lastSet>>
cryptoVars == <<encInput, encBlob, encOut>>
secVars == <<secOut>>
storeVars == <<idbUsage, lsUsage, idbPrefs, lsPrefs, idbQueue, lsQueue,
               backends>>
fetchVars == <<swCaches, fetchOut, swOldCaches, swState, skipWaiting, msgOut>>
syncVars == <<pendingSync, pendingKey, syncPc, pendingData, processed,
              queuedAtSync>>
updVars == <<usageSerial, isUpdating, dcCalls, manualCalls, pendingStore,
             rtCalls, monPaused, monUsage>>
migVars == <<lsLegacy, secExtra, migratePc, imports>>
addVars == <<queryOut, migVars, sweep>>
appVars == <<isAuthenticated, updateInterval>>
extOther == <<cryptoVars, secVars, storeVars, fetchVars, syncVars, updVars,
              addVars>>
extVars == <<extOther, appVars>>

vars == <<app, restarts, cryptoAvail, timeVars, persistVars, storageVars,
          manualVars, googleVars, authVars, monitorVars, cacheVars,
          histVars, extVars>>

(***************************************************************************)
(* StorageManager (pwa): encryption                                        *)
(***************************************************************************)
\* A value at rest: form "aes" is AES-GCM ciphertext under key kid, "b64" is
\* base64 of the JSON text, "plain" is the JSON text itself.
Stored(form, kid, data) == [form |-> form, kid |-> kid, data |-> data]

Ok(v) == [ok |-> TRUE, value |-> v]
Throw == [ok |-> FALSE, value |-> Null]

fallbackEncrypt(data) ==
    IF IsLatin1(data) THEN Stored("b64", NoKey, data)
    ELSE Stored("plain", NoKey, data)

encryptData(data, key) ==
    IF key = NoKey THEN fallbackEncrypt(data)
    ELSE Stored("aes", key, data)

fallbackDecrypt(rec) ==
    CASE rec.form = "b64" -> Ok(rec.data)
      [] rec.form = "plain" -> Ok(rec.data)
      [] OTHER -> Throw

decryptData(rec, key) ==
    IF key = NoKey THEN fallbackDecrypt(rec)
    ELSE IF rec.form = "aes" /\ rec.kid = key THEN Ok(rec.data)
    ELSE fallbackDecrypt(rec)


(***************************************************************************)
(* StorageManager (pwa): the secureData collection                         *)
(***************************************************************************)
\* The two places a secure record can live in.
SecureStore == [idb |-> idbSecure, ls |-> lsSecure]

setSecureData(s, dbOpen, encKey, data) ==
    LET record == encryptData(data, encKey)
    IN  IF dbOpen THEN [s EXCEPT !.idb = record] ELSE [s EXCEPT !.ls = record]

\* getSecureData that hands the stored data over although decryption failed
getSecureData_skipsDecryptCheck(s, dbOpen, encKey, readOk) ==
    LET record == IF dbOpen THEN s.idb ELSE s.ls
    IN  IF dbOpen /\ ~readOk THEN [value |-> Null, failed |-> TRUE]
        ELSE IF record = Null THEN [value |-> Null, failed |-> FALSE]
        ELSE [value |-> record.data,
              failed |-> ~decryptData(record, encKey).ok]

\* getSecureData that answers a failed decryption with an empty profile
getSecureData_defaultOnFailure(s, dbOpen, encKey, readOk) ==
    LET record == IF dbOpen THEN s.idb ELSE s.ls
    IN  IF dbOpen /\ ~readOk THEN [value |-> Null, failed |-> TRUE]
        ELSE IF record = Null THEN [value |-> Null, failed |-> FALSE]
        ELSE LET d == decryptData(record, encKey)
             IN  IF d.ok THEN [value |-> d.value, failed |-> FALSE]
                 ELSE [value |-> [email |-> "", auth_type |-> "none"],
                       failed |-> TRUE]

\* readOk = FALSE: the IndexedDB transaction fails.  The result carries the
\* value handed to the caller and whether a failure was swallowed.
getSecureData(s, dbOpen, encKey, readOk) ==
    LET record == IF dbOpen THEN s.idb ELSE s.ls
    IN  IF dbOpen /\ ~readOk THEN [value |-> Null, failed |-> TRUE]
        ELSE IF record = Null THEN [value |-> Null, failed |-> FALSE]
        ELSE LET d == decryptData(record, encKey)
             IN  IF d.ok THEN [value |-> d.value, failed |-> FALSE]
                 ELSE [value |-> Null, failed |-> TRUE]

removeSecureData(s, dbOpen) ==
    IF dbOpen THEN [s EXCEPT !.idb = Null] ELSE [s EXCEPT !.ls = Null]

\* clearAllData, on the secureData collection.
clearAllSecure(s, dbOpen) ==
    [idb |-> IF dbOpen THEN Null ELSE s.idb, ls |-> Null]

ReadOutcomes == IF db THEN BOOLEAN ELSE {TRUE}

(***************************************************************************)
(* StorageManager (pwa): init                                              *)
(***************************************************************************)
Storage_initializeEncryption ==
    /\ app = "pwa"
    /\ storagePc = "encrypt"
    /\ IF ~cryptoAvail
       THEN UNCHANGED <<encryptionKey, lsEncKey, keyCounter>>
       ELSE IF lsEncKey # NoKey
       THEN encryptionKey' = lsEncKey /\ UNCHANGED <<lsEncKey, keyCounter>>
       ELSE /\ keyCounter < MaxKeys
            /\ keyCounter' = keyCounter + 1
            /\ encryptionKey' = keyCounter + 1
            /\ lsEncKey' = keyCounter + 1
    /\ storagePc' = "opendb"
    /\ UNCHANGED <<app, restarts, cryptoAvail, timeVars, idbSecure, lsSecure,
                   db, manualVars, googleVars, authVars, histVars>>
    /\ UNCHANGED <<cacheVars, extVars>>
    /\ UNCHANGED monitorVars

Storage_initializeIndexedDB ==
    /\ app = "pwa"
    /\ storagePc = "opendb"
    /\ \E opened \in BOOLEAN : db' = opened
    /\ storagePc' = "ready"
    /\ UNCHANGED <<app, restarts, cryptoAvail, timeVars, persistVars,
                   encryptionKey, manualVars, googleVars, authVars, histVars>>
    /\ UNCHANGED <<cacheVars, extVars>>
    /\ UNCHANGED monitorVars

(***************************************************************************)
(* StorageManager (pwa): the cache collection                              *)
(***************************************************************************)
CacheStore == [idb |-> idbCache, ls |-> lsCache]

setCacheData(c, dbOpen, key, data, ttl, t) ==
    LET record == [key |-> key, data |-> data, expires |-> t + ttl,
                   timestamp |-> t]
    IN  IF dbOpen THEN [c EXCEPT !.idb[key] = record]
        ELSE [c EXCEPT !.ls[key] = record]

removeCacheData(c, dbOpen, key) ==
    IF dbOpen THEN [c EXCEPT !.idb[key] = Null]
    ELSE [c EXCEPT !.ls[key] = Null]

\* getCacheData that reports the miss and leaves the expired record in place
getCacheData_keepsExpired(c, dbOpen, key, t, readOk) ==
    LET record == IF dbOpen THEN c.idb[key] ELSE c.ls[key]
    IN  IF (dbOpen /\ ~readOk) \/ record = Null
        THEN [value |-> NullData, cache |-> c, expired |-> FALSE]
        ELSE IF t > record.expires
        THEN [value |-> NullData, cache |-> c, expired |-> TRUE]
        ELSE [value |-> record.data, cache |-> c, expired |-> FALSE]

\* The result carries the value returned, the collection afterwards and
\* whether the record read had expired.  readOk = FALSE: the IndexedDB
\* transaction fails, which reaches the caller as null.
getCacheData(c, dbOpen, key, t, readOk) ==
    LET record == IF dbOpen THEN c.idb[key] ELSE c.ls[key]
    IN  IF (dbOpen /\ ~readOk) \/ record = Null
        THEN [value |-> NullData, cache |-> c, expired |-> FALSE]
        ELSE IF t > record.expires
        THEN [value |-> NullData, cache |-> removeCacheData(c, dbOpen, key),
              expired |-> TRUE]
        ELSE [value |-> record.data, cache |-> c, expired |-> FALSE]

\* The sweep: the IndexedDB cursor covers expires <= now, the localStorage
\* loop removes a record when now > expires.
cleanExpiredCache(c, dbOpen, t) ==
    IF dbOpen
    THEN [c EXCEPT !.idb = [k \in CacheKeys |->
             IF c.idb[k] # Null /\ c.idb[k].expires <= t THEN Null
             ELSE c.idb[k]]]
    ELSE [c EXCEPT !.ls = [k \in CacheKeys |->
             IF c.ls[k] # Null /\ t > c.ls[k].expires THEN Null
             ELSE c.ls[k]]]

UNCHANGED_auth == UNCHANGED <<manualVars, googleVars, authVars, monitorVars,
                              histVars, idbSecure, lsSecure, extVars>>

Cache_setCacheData(key, data) ==
    /\ app = "pwa"
    /\ LET c == setCacheData(CacheStore, db, key, data, CacheTTL(key), now)
       IN  /\ idbCache' = c.idb
           /\ lsCache' = c.ls
           /\ lastSet' = [lastSet EXCEPT ![key] =
                             IF db THEN c.idb[key] ELSE c.ls[key]]
    /\ cacheResult' = Null
    /\ UNCHANGED <<app, restarts, cryptoAvail, timeVars, lsEncKey, keyCounter,
                   storageVars>>
    /\ UNCHANGED_auth

Cache_getCacheData(key, readOk) ==
    /\ app = "pwa"
    /\ LET r == getCacheData(CacheStore, db, key, now, readOk)
       IN  /\ idbCache' = r.cache.idb
           /\ lsCache' = r.cache.ls
           /\ cacheResult' = [key |-> key, value |-> r.value,
                              expired |-> r.expired, fromDb |-> db]
    /\ UNCHANGED <<app, restarts, cryptoAvail, timeVars, lsEncKey, keyCounter,
                   storageVars, lastSet>>
    /\ UNCHANGED_auth

Cache_removeCacheData(key) ==
    /\ app = "pwa"
    /\ LET c == removeCacheData(CacheStore, db, key)
       IN  idbCache' = c.idb /\ lsCache' = c.ls
    /\ lastSet' = [lastSet EXCEPT ![key] = Null]
    /\ cacheResult' = Null
    /\ UNCHANGED <<app, restarts, cryptoAvail, timeVars, lsEncKey, keyCounter,
                   storageVars>>
    /\ UNCHANGED_auth

\* the hourly timer, once the manager is initialized
Cache_cleanExpiredCache ==
    /\ app = "pwa"
    /\ storagePc = "ready"
    /\ LET c == cleanExpiredCache(CacheStore, db, now)
       IN  idbCache' = c.idb /\ lsCache' = c.ls
    /\ UNCHANGED <<app, restarts, cryptoAvail, timeVars, lsEncKey, keyCounter,
                   storageVars, cacheResult, lastSet>>
    /\ UNCHANGED_auth

CacheTick(d) ==
    /\ storagePc = "ready"
    /\ ticks < MaxTicks
    /\ ticks' = ticks + 1
    /\ now' = now + d
    /\ cacheResult' = Null
    /\ UNCHANGED <<app, restarts, cryptoAvail, lsEncKey, keyCounter,
                   storageVars, idbCache, lsCache, lastSet>>
    /\ UNCHANGED_auth

CacheRestart ==
    /\ storagePc = "ready"
    /\ restarts < MaxRestarts
    /\ restarts' = restarts + 1
    /\ db' = FALSE
    /\ encryptionKey' = NoKey
    /\ storagePc' = "encrypt"
    /\ cacheResult' = Null
    /\ UNCHANGED <<app, cryptoAvail, timeVars, lsEncKey, keyCounter,
                   idbCache, lsCache, lastSet>>
    /\ UNCHANGED_auth

(***************************************************************************)
(* Session validity                                                        *)
(***************************************************************************)
\* isSessionValid without the comparison with the clock
isSessionValid_ignoresClock(userProfile, t) ==
    userProfile # Null /\ userProfile.expires_at # 0

isSessionValid(userProfile, t) ==
    IF userProfile = Null \/ userProfile.expires_at = 0 THEN FALSE
    ELSE t < userProfile.expires_at

isTokenValid(userProfile, t) ==
    IF userProfile = Null \/ userProfile.expires_at = 0 THEN FALSE
    ELSE userProfile.expires_at - t > TokenMargin

Manual_isSignedIn == manualUser # Null /\ isSessionValid(manualUser, now)
Google_isSignedIn == googleUser # Null /\ isTokenValid(googleUser, now)
Auth_isSignedIn == authUser # Null


(***************************************************************************)
(* AuthManager: handlers of the events the two managers dispatch           *)
(***************************************************************************)
\* The listeners exist once AuthManager.init has run setupEventListeners.
Auth_listening == authPc = "ready"

\* handleSessionRestore(user, method), with showDashboard
\* (showDashboard: initializeDashboard starts the collector's updates; the
\* event auth-restored has no listener in Application)
Auth_handleSessionRestore(user, method) ==
    /\ authUser' = user
    /\ authMethod' = method
    /\ screen' = "dashboard"
    /\ updateInterval' = TRUE

(***************************************************************************)
(* ManualAuthManager                                                       *)
(***************************************************************************)
Manual_userProfile(email, authType, rememberMe, t) ==
    [email |-> email,
     auth_method |-> authType,
     auth_time |-> t,
     remember_me |-> rememberMe,
     expires_at |-> IF authType = "api_key" THEN t + ApiKeyTTL
                    ELSE t + PasswordTTL(rememberMe)]

\* checkExistingSession: read the stored profile, install it when it is
\* still valid (dispatching manual-session-restored), clear it otherwise.
\* A failed read or decryption reaches it as null.
Manual_checkExistingSession(readOk) ==
    /\ app = "pwa"
    /\ manualPc = "init"
    /\ manualPc' = "done"
    /\ LET r == getSecureData(SecureStore, db, encryptionKey, readOk)
           userProfile == r.value
       IN  /\ readFailed' = IF r.failed THEN readFailed \cup {"manual"}
                            ELSE readFailed
           /\ IF userProfile # Null /\ isSessionValid(userProfile, now)
              THEN /\ manualUser' = userProfile
                   /\ lastRestore' = userProfile
                   /\ IF Auth_listening
                      THEN Auth_handleSessionRestore(userProfile, "manual")
                      ELSE UNCHANGED <<authUser, authMethod, screen,
                                       updateInterval>>
                   /\ UNCHANGED <<idbSecure, lsSecure>>
              ELSE /\ IF userProfile # Null
                      THEN LET s == removeSecureData(SecureStore, db)
                           IN  idbSecure' = s.idb /\ lsSecure' = s.ls
                      ELSE UNCHANGED <<idbSecure, lsSecure>>
                   /\ UNCHANGED <<manualUser, lastRestore, authUser,
                                  authMethod, screen, updateInterval>>
    /\ UNCHANGED <<app, restarts, cryptoAvail, timeVars, lsEncKey, keyCounter,
                   storageVars, googleVars, authPc, errorShown,
                   remembered, loggedOut>>
    /\ UNCHANGED <<cacheVars, extOther, isAuthenticated>>
    /\ UNCHANGED monitorVars

(***************************************************************************)
(* GoogleAuthManager                                                       *)
(***************************************************************************)
Google_userProfile(email, t) ==
    [email |-> email,
     auth_method |-> "google",
     auth_time |-> t,
     remember_me |-> FALSE,
     expires_at |-> t + GoogleTokenLifetime]

\* waitForGoogleLibrary gives up: init fails before checkExistingSession
Google_libraryTimeout ==
    /\ app = "pwa"
    /\ googlePc = "init"
    /\ googlePc' = "failed"
    /\ UNCHANGED <<app, restarts, cryptoAvail, timeVars, persistVars,
                   storageVars, manualVars, googleUser, authVars,
                   histVars>>
    /\ UNCHANGED <<cacheVars, extVars>>
    /\ UNCHANGED monitorVars

\* init after the library has loaded: checkExistingSession
Google_checkExistingSession(readOk) ==
    /\ app = "pwa"
    /\ googlePc = "init"
    /\ googlePc' = "done"
    /\ LET r == getSecureData(SecureStore, db, encryptionKey, readOk)
           userProfile == r.value
       IN  /\ readFailed' = IF r.failed THEN readFailed \cup {"google"}
                            ELSE readFailed
           /\ IF userProfile # Null /\ isTokenValid(userProfile, now)
              THEN /\ googleUser' = userProfile
                   /\ lastRestore' = userProfile
                   /\ IF Auth_listening
                      THEN Auth_handleSessionRestore(userProfile, "google")
                      ELSE UNCHANGED <<authUser, authMethod, screen,
                                       updateInterval>>
                   /\ UNCHANGED <<idbSecure, lsSecure>>
              ELSE /\ IF userProfile # Null
                      THEN LET s == removeSecureData(SecureStore, db)
                           IN  idbSecure' = s.idb /\ lsSecure' = s.ls
                      ELSE UNCHANGED <<idbSecure, lsSecure>>
                   /\ UNCHANGED <<googleUser, lastRestore, authUser,
                                  authMethod, screen, updateInterval>>
    /\ UNCHANGED <<app, restarts, cryptoAvail, timeVars, lsEncKey, keyCounter,
                   storageVars, manualVars, authPc, errorShown,
                   remembered, loggedOut>>
    /\ UNCHANGED <<cacheVars, extOther, isAuthenticated>>
    /\ UNCHANGED monitorVars

(***************************************************************************)
(* Sign-in                                                                 *)
(***************************************************************************)
\* The startup handlers of the page have all settled.  The user signs in and
\* out, and the clock advances, only then.
PwaQuiescent ==
    /\ storagePc = "ready"
    /\ manualPc = "done"
    /\ googlePc \in {"done", "failed"}
    /\ authPc = "ready"

\* An IndexedDB write can fail; a localStorage write does not.
WriteOutcomes == IF db THEN BOOLEAN ELSE {TRUE}

\* handleLogin: authenticate, storeUserProfile, install the user, dispatch
\* manual-sign-in-success (AuthManager.handleManualSignIn, which signs a
\* signed-in Google user out: GoogleAuthManager.signOut clears the stored
\* session).  A failed write surfaces as manual-sign-in-error.
Manual_handleLogin(email, authType, rememberMe, writeOk) ==
    /\ app = "pwa"
    /\ PwaQuiescent
    /\ screen = "login"
    /\ LET userProfile == Manual_userProfile(email, authType, rememberMe, now)
           stored == setSecureData(SecureStore, db, encryptionKey, userProfile)
           googleOut == Auth_listening /\ Google_isSignedIn
           after == IF googleOut THEN removeSecureData(stored, db) ELSE stored
       IN  IF ~writeOk
           THEN /\ errorShown' = Auth_listening
                /\ UNCHANGED <<idbSecure, lsSecure, manualUser, googleUser,
                               authUser, authMethod, screen, remembered,
                               loggedOut, appVars>>
           ELSE /\ idbSecure' = after.idb
                /\ lsSecure' = after.ls
                /\ manualUser' = userProfile
                /\ remembered' =
                     IF remembered.phase = "fresh" /\ rememberMe
                        /\ idbSecure = Null /\ lsSecure = Null
                     THEN [phase |-> "login", user |-> userProfile]
                     ELSE ScenarioOff
                /\ loggedOut' = FALSE
                /\ IF Auth_listening
                   THEN /\ authUser' = userProfile
                        /\ authMethod' = "manual"
                        /\ screen' = "dashboard"
                        /\ updateInterval' = TRUE
                        /\ isAuthenticated' = TRUE
                        /\ googleUser' = IF googleOut THEN Null ELSE googleUser
                   ELSE UNCHANGED <<authUser, authMethod, screen, googleUser,
                                    appVars>>
                /\ UNCHANGED errorShown
    /\ UNCHANGED <<app, restarts, cryptoAvail, timeVars, lsEncKey, keyCounter,
                   storageVars, manualPc, googlePc,
                   authPc, lastRestore>>
    /\ UNCHANGED <<cacheVars, extOther>>
    /\ readFailed' = {}
    /\ UNCHANGED monitorVars

\* handleCredentialResponse, with AuthManager.handleGoogleSignIn (which signs
\* a signed-in manual user out: ManualAuthManager.signOut clears the stored
\* session).
Google_handleCredentialResponse(email, writeOk) ==
    /\ app = "pwa"
    /\ PwaQuiescent
    /\ googlePc = "done"
    /\ screen = "login"
    /\ LET userProfile == Google_userProfile(email, now)
           stored == setSecureData(SecureStore, db, encryptionKey, userProfile)
           manualOut == Auth_listening /\ Manual_isSignedIn
           after == IF manualOut THEN removeSecureData(stored, db) ELSE stored
       IN  IF ~writeOk
           THEN /\ errorShown' = Auth_listening
                /\ UNCHANGED <<idbSecure, lsSecure, manualUser, googleUser,
                               authUser, authMethod, screen, remembered,
                               loggedOut, appVars>>
           ELSE /\ idbSecure' = after.idb
                /\ lsSecure' = after.ls
                /\ googleUser' = userProfile
                /\ remembered' = ScenarioOff
                /\ loggedOut' = FALSE
                /\ IF Auth_listening
                   THEN /\ authUser' = userProfile
                        /\ authMethod' = "google"
                        /\ screen' = "dashboard"
                        /\ updateInterval' = TRUE
                        /\ isAuthenticated' = TRUE
                        /\ manualUser' = IF manualOut THEN Null ELSE manualUser
                   ELSE UNCHANGED <<authUser, authMethod, screen, manualUser,
                                    appVars>>
                /\ UNCHANGED errorShown
    /\ UNCHANGED <<app, restarts, cryptoAvail, timeVars, lsEncKey, keyCounter,
                   storageVars, manualPc, googlePc,
                   authPc, lastRestore>>
    /\ UNCHANGED <<cacheVars, extOther>>
    /\ readFailed' = {}
    /\ UNCHANGED monitorVars

(***************************************************************************)
(* AuthManager                                                             *)
(***************************************************************************)
\* init: setupEventListeners, then checkExistingAuth
Auth_init ==
    /\ app = "pwa"
    /\ authPc = "init"
    /\ authPc' = "ready"
    /\ IF Google_isSignedIn
       THEN /\ Auth_handleSessionRestore(googleUser, "google")
            /\ lastRestore' = googleUser
       ELSE IF Manual_isSignedIn
       THEN /\ Auth_handleSessionRestore(manualUser, "manual")
            /\ lastRestore' = manualUser
       ELSE /\ screen' = "login"
            /\ UNCHANGED <<authUser, authMethod, lastRestore,
                           updateInterval>>
    /\ UNCHANGED <<app, restarts, cryptoAvail, timeVars, persistVars,
                   storageVars, manualVars, googleVars, errorShown,
                   remembered, readFailed, loggedOut>>
    /\ UNCHANGED <<cacheVars, extOther, isAuthenticated>>
    /\ UNCHANGED monitorVars

\* signOut: the active manager's signOut (clearStoredSession), the login
\* screen, then clearCachedData (the localStorage keys of APP_CONFIG and
\* StorageManager.clearAllData).
Auth_signOutEffects ==
    /\ LET s == clearAllSecure(
                  IF authMethod \in {"google", "manual"}
                  THEN removeSecureData(SecureStore, db) ELSE SecureStore, db)
       IN  idbSecure' = s.idb /\ lsSecure' = s.ls
    /\ lsEncKey' = NoKey
    /\ manualUser' = IF authMethod = "manual" THEN Null ELSE manualUser
    /\ googleUser' = IF authMethod = "google" THEN Null ELSE googleUser
    /\ authUser' = Null
    /\ authMethod' = "none"
    /\ screen' = "login"

\* the logout button
Auth_signOut ==
    /\ app = "pwa"
    /\ PwaQuiescent
    /\ authUser # Null
    /\ Auth_signOutEffects
    /\ loggedOut' = TRUE
    /\ remembered' = ScenarioOff
    /\ UNCHANGED <<app, restarts, cryptoAvail, timeVars, keyCounter,
                   storageVars, manualPc, googlePc,
                   authPc, errorShown, lastRestore>>
    /\ UNCHANGED <<cacheVars, extOther, updateInterval>>
    /\ isAuthenticated' = FALSE
    /\ readFailed' = {}
    /\ UNCHANGED monitorVars

\* refreshAuthStatus (every five minutes, on visibility, on reconnect) when
\* the active manager no longer reports a valid session
Auth_refreshAuthStatus ==
    /\ app = "pwa"
    /\ Auth_listening
    /\ Auth_isSignedIn
    /\ ~ (\/ authMethod = "google" /\ Google_isSignedIn
          \/ authMethod = "manual" /\ Manual_isSignedIn)
    /\ Auth_signOutEffects
    /\ UNCHANGED <<app, restarts, cryptoAvail, timeVars, keyCounter,
                   storageVars, manualPc, googlePc,
                   authPc, errorShown, histVars>>
    /\ UNCHANGED <<cacheVars, extOther, updateInterval>>
    /\ isAuthenticated' = FALSE
    /\ UNCHANGED monitorVars

\* the token monitor of GoogleAuthManager (every minute): signOut when the
\* token is no longer valid; AuthManager.handleSignOut('google') follows
Google_tokenMonitor ==
    /\ app = "pwa"
    /\ googleUser # Null
    /\ ~isTokenValid(googleUser, now)
    /\ LET s == removeSecureData(SecureStore, db)
       IN  idbSecure' = s.idb /\ lsSecure' = s.ls
    /\ googleUser' = Null
    /\ IF Auth_listening /\ authMethod = "google"
       THEN authUser' = Null /\ authMethod' = "none" /\ screen' = "login"
       ELSE UNCHANGED <<authUser, authMethod, screen>>
    /\ UNCHANGED <<app, restarts, cryptoAvail, timeVars, lsEncKey, keyCounter,
                   storageVars, manualVars, googlePc, authPc,
                   errorShown, histVars>>
    /\ UNCHANGED <<cacheVars, extVars>>
    /\ UNCHANGED monitorVars

(***************************************************************************)
(* The monitor deployment: StorageManager (credentials) and                *)
(* ClaudeUsageMonitor                                                      *)
(***************************************************************************)
\* setSession(data)
setSession(data, t) ==
    [credentials |-> data, expiry |-> t + sessionTimeout, createdAt |-> t]

\* getCredentials: the session's credentials when there is a session, else
\* the decrypted stored credentials, which also refresh the session.  The
\* result carries the value returned, the session afterwards and the record
\* the value was taken from.
getCredentials(session, credentials, t) ==
    IF session # Null
    THEN [value |-> session.credentials, session |-> session,
          record |-> session]
    ELSE IF credentials = Null
    THEN [value |-> Null, session |-> session, record |-> Null]
    ELSE [value |-> credentials,
          session |-> setSession([email |-> credentials.email,
                                  apiKey |-> credentials.apiKey], t),
          record |-> credentials]

\* saveCredentials(email, apiKey, rememberMe): the stored credentials and the
\* session afterwards
saveCredentials(credentials, email, rememberMe, t) ==
    [credentials |-> IF rememberMe
                     THEN [email |-> email, apiKey |-> ApiKey,
                           savedAt |-> t, rememberMe |-> TRUE]
                     ELSE credentials,
     session |-> setSession([email |-> email, apiKey |-> ApiKey], t)]

\* ClaudeUsageMonitor.init: StorageManager.init drops a session whose expiry
\* has passed; stored credentials or a session start the auto-login timer,
\* otherwise the login screen follows the splash screen.
Monitor_init ==
    /\ app = "monitor"
    /\ monPc = "init"
    /\ LET session == IF monSession # Null /\ monSession.expiry < now
                      THEN Null ELSE monSession
           hasStoredCredentials == monCreds # Null \/ session # Null
           r == getCredentials(session, monCreds, now)
       IN  IF hasStoredCredentials /\ r.value # Null
           THEN /\ monSession' = r.session
                /\ lastRestore' = r.record
                /\ monPc' = "autologin"
                /\ UNCHANGED monScreen
           ELSE /\ monSession' = session
                /\ monScreen' = "login"
                /\ monPc' = "ready"
                /\ UNCHANGED lastRestore
    /\ UNCHANGED <<app, restarts, cryptoAvail, timeVars, pwaVars, monCreds,
                   remembered, readFailed, loggedOut>>
    /\ UNCHANGED <<cacheVars, extVars>>

\* autoLogin(credentials), when the timer fires
Monitor_autoLogin ==
    /\ app = "monitor"
    /\ monPc = "autologin"
    /\ monPc' = "ready"
    /\ monScreen' = "dashboard"
    /\ UNCHANGED <<app, restarts, cryptoAvail, timeVars, pwaVars, monCreds,
                   monSession, histVars>>
    /\ UNCHANGED <<cacheVars, extVars>>

\* handleLogin: validate the key with the API, saveCredentials, showDashboard
Monitor_handleLogin(email, rememberMe, isValid) ==
    /\ app = "monitor"
    /\ monPc = "ready"
    /\ monScreen = "login"
    /\ IF ~isValid
       THEN /\ errorShown' = TRUE
            /\ UNCHANGED <<monCreds, monSession, monScreen, loggedOut>>
       ELSE /\ LET saved == saveCredentials(monCreds, email, rememberMe, now)
               IN  monCreds' = saved.credentials /\ monSession' = saved.session
            /\ monScreen' = "dashboard"
            /\ loggedOut' = FALSE
            /\ UNCHANGED errorShown
    /\ UNCHANGED <<app, restarts, cryptoAvail, timeVars, persistVars,
                   storageVars, manualVars, googleVars, authUser, authMethod,
                   authPc, screen, monPc, lastRestore, remembered, readFailed>>
    /\ UNCHANGED <<cacheVars, extVars>>

\* handleLogout: clearSession, then showLoginScreen, whose
\* checkForSavedCredentials calls getCredentials
Monitor_handleLogout ==
    /\ app = "monitor"
    /\ monPc = "ready"
    /\ monScreen = "dashboard"
    /\ monSession' = getCredentials(Null, monCreds, now).session
    /\ monScreen' = "login"
    /\ loggedOut' = TRUE
    /\ UNCHANGED <<app, restarts, cryptoAvail, timeVars, pwaVars, monCreds,
                   monPc, lastRestore, remembered, readFailed>>
    /\ UNCHANGED <<cacheVars, extVars>>

\* clearSavedData (the button of the login screen): StorageManager.clearAllData
Monitor_clearSavedData ==
    /\ app = "monitor"
    /\ monPc = "ready"
    /\ monScreen = "login"
    /\ monCreds # Null \/ monSession # Null
    /\ monCreds' = Null
    /\ monSession' = Null
    /\ UNCHANGED <<app, restarts, cryptoAvail, timeVars, pwaVars, monScreen,
                   monPc, histVars>>
    /\ UNCHANGED <<cacheVars, extVars>>

(***************************************************************************)
(* Environment: the clock and page loads                                   *)
(***************************************************************************)
Quiescent == IF app = "pwa" THEN PwaQuiescent ELSE monPc = "ready"

Tick(d) ==
    /\ Quiescent
    /\ ticks < MaxTicks
    /\ ticks' = ticks + 1
    /\ now' = now + d
    /\ errorShown' = FALSE
    /\ lastRestore' = Null
    /\ UNCHANGED <<app, restarts, cryptoAvail, persistVars, storageVars,
                   manualVars, googleVars, authUser, authMethod, authPc,
                   screen, monitorVars, remembered, readFailed,
                   loggedOut>>
    /\ UNCHANGED <<cacheVars, extVars>>

\* A page load: everything in memory starts over, storage is kept.
\* sessionStorage survives a reload and is gone with a new tab.
Restart ==
    /\ Quiescent
    /\ restarts < MaxRestarts
    /\ restarts' = restarts + 1
    /\ db' = FALSE
    /\ encryptionKey' = NoKey
    /\ storagePc' = "encrypt"
    /\ manualUser' = Null /\ manualPc' = "init"
    /\ googleUser' = Null /\ googlePc' = "init"
    /\ authUser' = Null /\ authMethod' = "none" /\ authPc' = "init"
    /\ screen' = "loading"
    /\ errorShown' = FALSE
    /\ lastRestore' = Null
    /\ readFailed' = {}
    /\ remembered' =
         IF remembered.phase = "login"
         THEN [remembered EXCEPT !.phase = "restarted"]
         ELSE IF remembered.phase = "fresh" THEN remembered ELSE ScenarioOff
    /\ monPc' = "init"
    /\ monScreen' = "splash"
    /\ IF app = "monitor"
       THEN \E reload \in BOOLEAN :
               monSession' = IF reload THEN monSession ELSE Null
       ELSE UNCHANGED monSession
    /\ UNCHANGED <<app, cryptoAvail, timeVars, persistVars, monCreds,
                   loggedOut>>
    /\ UNCHANGED <<cacheVars, extOther>>
    /\ isAuthenticated' = FALSE /\ updateInterval' = FALSE

(***************************************************************************)
(* CryptoUtils (utils.js): AES-GCM under a key derived from a password     *)
(***************************************************************************)
saltLength == 16
ivLength == 12
tagLength == 128

Passwords == {"pw-one", "pw-two"}
\* what crypto.getRandomValues may hand out
Salts == {"salt-a", "salt-b"}
IVs == {"iv-a", "iv-b"}

\* The values handed to encrypt; len is the length of the JSON text in
\* bytes.  NaN is not JSON-serializable: JSON.stringify writes null for it.
\* The last value is a string of one mebibyte.
CuValues ==
    { [type |-> "number", v |-> "42", len |-> 2],
      [type |-> "object", v |-> "{k:1}", len |-> 7],
      [type |-> "null", v |-> "null", len |-> 4],
      [type |-> "number", v |-> "NaN", len |-> 4],
      [type |-> "string", v |-> "export", len |-> 1048578] }

IsJsonSerializable(v) == ~(v.type = "number" /\ v.v = "NaN")

JSON_stringify(v) ==
    IF IsJsonSerializable(v) THEN [text |-> v.v, len |-> v.len]
    ELSE [text |-> "null", len |-> 4]

JSON_parse(t) ==
    LET vs == {v \in CuValues : IsJsonSerializable(v) /\ JSON_stringify(v) = t}
    IN  IF vs = {} THEN Throw ELSE Ok(CHOOSE v \in vs : TRUE)

\* PBKDF2: another password or another salt gives another key.
deriveKey(password, salt) == [password |-> password, salt |-> salt]

\* AES-GCM: the ciphertext carries a tag over the key, the iv and the text.
subtle_encrypt(key, iv, text) ==
    [key |-> key, iv |-> iv, text |-> text, intact |-> TRUE]

subtle_decrypt(key, iv, encrypted) ==
    IF encrypted.intact /\ encrypted.key = key /\ encrypted.iv = iv
    THEN Ok(encrypted.text)
    ELSE Throw

\* salt + iv + ciphertext + tag, in bytes
ByteLength(combined) ==
    saltLength + ivLength + combined.encrypted.text.len + tagLength \div 8

\* String.fromCharCode(...combined) passes one argument per byte.  Every
\* engine bounds the length of an argument list well below 2^20
\* (JavaScriptCore 65536, V8 about 120000, SpiderMonkey 500000) and throws a
\* RangeError beyond its bound.
ExceedsArgumentLimit(n) == n >= 1048576

\* Base64 writes three bytes as four characters.  When the length is not a
\* multiple of three, the last character before the padding carries bits
\* that encode nothing (slack): btoa writes them as zero.
HasSlack(combined) == ByteLength(combined) % 3 # 0
btoa(combined) == [bytes |-> combined, slack |-> "zero"]
\* atob (forgiving-base64 decode) discards the slack bits unread.
atob(blob) == blob.bytes

CryptoUtils_encrypt(data, password, salt, iv) ==
    LET key == deriveKey(password, salt)
        encrypted == subtle_encrypt(key, iv, JSON_stringify(data))
        combined == [salt |-> salt, iv |-> iv, encrypted |-> encrypted]
    IN  IF ExceedsArgumentLimit(ByteLength(combined)) THEN Throw
        ELSE Ok(btoa(combined))

CryptoUtils_decrypt(encryptedData, password) ==
    LET combined == atob(encryptedData)
        key == deriveKey(password, combined.salt)
        decrypted == subtle_decrypt(key, combined.iv, combined.encrypted)
    IN  IF decrypted.ok THEN JSON_parse(decrypted.value) ELSE Throw

\* One byte of the blob is changed: where the changed character decodes to.
FlipPlaces == {"salt", "iv", "encrypted", "slack"}
FlipByte(blob, place) ==
    CASE place = "salt" -> [blob EXCEPT !.bytes.salt = "salt-flipped"]
      [] place = "iv" -> [blob EXCEPT !.bytes.iv = "iv-flipped"]
      [] place = "encrypted" -> [blob EXCEPT !.bytes.encrypted.intact = FALSE]
      [] place = "slack" -> [blob EXCEPT !.slack = "flipped"]

UNCHANGED_crypto ==
    UNCHANGED <<app, restarts, cryptoAvail, timeVars, persistVars,
                storageVars, manualVars, googleVars, authVars, monitorVars,
                cacheVars, histVars, secVars, storeVars, fetchVars,
                syncVars,
                updVars, addVars, appVars>>

Crypto_encrypt(data, password, salt, iv) ==
    /\ encInput' = [service |-> "CryptoUtils", data |-> data,
                    secret |-> password]
    /\ encBlob' = [result |-> CryptoUtils_encrypt(data, password, salt, iv),
                  altered |-> FALSE]
    /\ encOut' = Null
    /\ UNCHANGED_crypto

Crypto_flipByte(place) ==
    /\ encInput # Null /\ encInput.service = "CryptoUtils"
    /\ encBlob.result.ok /\ ~encBlob.altered
    /\ place = "slack" => HasSlack(encBlob.result.value.bytes)
    /\ encBlob' = [result |-> Ok(FlipByte(encBlob.result.value, place)),
                  altered |-> TRUE]
    /\ encOut' = Null
    /\ UNCHANGED encInput
    /\ UNCHANGED_crypto

Crypto_decrypt(password) ==
    /\ encInput # Null /\ encInput.service = "CryptoUtils"
    /\ encBlob.result.ok
    /\ encOut' = [secret |-> password,
                  result |-> CryptoUtils_decrypt(encBlob.result.value,
                                                 password)]
    /\ UNCHANGED <<encInput, encBlob>>
    /\ UNCHANGED_crypto

(***************************************************************************)
(* StorageManager (pwa): secure records written and read by the            *)
(* application, and changed behind its back                                *)
(***************************************************************************)
SecData == {[email |-> e, auth_type |-> "password"] : e \in Emails}

\* One character of a stored record is changed.  Ciphertext that was changed
\* is ciphertext no more.  Base64 or JSON text that was changed is either
\* text that does not parse or the text of another value.
TamperedEmail == "ann@exbmple.com"
Garbled == Stored("garbled", NoKey, Null)
IsAltered(rec) ==
    rec # Null /\ (rec.form = "garbled" \/ rec.data.email = TamperedEmail)
AlterRecord(rec) ==
    IF rec.form \in {"b64", "plain"}
    THEN {Garbled, [rec EXCEPT !.data.email = TamperedEmail]}
    ELSE {Garbled}

ActiveBackend == IF db THEN "idb" ELSE "ls"

UNCHANGED_sec ==
    UNCHANGED <<app, restarts, cryptoAvail, timeVars, manualVars, googleVars,
                authVars, monitorVars, cacheVars, histVars, cryptoVars,
                fetchVars, syncVars,
                updVars, addVars, appVars>>

Sec_setSecureData(data) ==
    /\ app = "pwa"
    /\ LET s == setSecureData(SecureStore, db, encryptionKey, data)
       IN  idbSecure' = s.idb /\ lsSecure' = s.ls
    /\ backends' = backends \cup {ActiveBackend}
    /\ secOut' = Null
    /\ UNCHANGED <<lsEncKey, keyCounter, storageVars, idbUsage, lsUsage,
                   idbPrefs, lsPrefs, idbQueue, lsQueue>>
    /\ UNCHANGED_sec

Sec_getSecureData(readOk) ==
    /\ app = "pwa"
    /\ LET record == IF db THEN idbSecure ELSE lsSecure
           r == getSecureData(SecureStore, db, encryptionKey, readOk)
       IN  secOut' = [record |-> IF db /\ ~readOk THEN Null ELSE record,
                      readOk |-> readOk,
                      key |-> encryptionKey,
                      decrypted |-> IF record = Null \/ (db /\ ~readOk)
                                    THEN Null
                                    ELSE decryptData(record, encryptionKey),
                      value |-> r.value]
    /\ backends' = backends \cup {ActiveBackend}
    /\ UNCHANGED <<persistVars, storageVars, idbUsage, lsUsage, idbPrefs,
                   lsPrefs, idbQueue, lsQueue>>
    /\ UNCHANGED_sec

\* The record of the active backend is changed by something other than the
\* storage manager (a storage fault, another script of the origin).
Sec_alterRecord ==
    /\ app = "pwa"
    /\ LET record == IF db THEN idbSecure ELSE lsSecure
       IN  /\ record # Null /\ ~IsAltered(record)
           /\ \E changed \in AlterRecord(record) :
                 IF db THEN idbSecure' = changed /\ UNCHANGED lsSecure
                 ELSE lsSecure' = changed /\ UNCHANGED idbSecure
    /\ secOut' = Null
    /\ UNCHANGED <<lsEncKey, keyCounter, storageVars, storeVars>>
    /\ UNCHANGED_sec

(***************************************************************************)
(* StorageManager (pwa): usage records, preferences, the sync queue and    *)
(* clearAllData                                                            *)
(***************************************************************************)
\* The largest number of usage records, and of queued items, in the model.
MaxItems == 2

\* What a caller hands to storeUsageData.  id 0 and timestamp 0 stand for a
\* record that carries none (data.id || ... takes 0 for none as well).
UsageRecords == {[source |-> "web", tokens |-> 100, id |-> 0, timestamp |-> 0]}
SyncItems == {"item-a", "item-b"}
PrefValues == {"dark"}

\* The most records the localStorage array of usage records keeps.
UsageKeep == 1000

\* Date.now(): the session starts at a positive time, and two calls that
\* the clock does not step between read the same value.
Date_now(t) == 1000 + t

\* store.put on the object store usageData, whose key path is id: the
\* record takes the place of the record with its id, and getAll lists the
\* records by id.
usagePut(store, record) ==
    SelectSeq(store, LAMBDA r : r.id < record.id)
        \o <<record>>
        \o SelectSeq(store, LAMBDA r : r.id > record.id)

\* A storeUsageData whose fallback drops the newest records at the cap.
storeUsageData_keepsOldest(idb, ls, dbOpen, data, t) ==
    LET record == [data EXCEPT
                      !.id = IF data.id # 0 THEN data.id ELSE Date_now(t),
                      !.timestamp = Date_now(t)]
    IN  IF dbOpen THEN [idb |-> usagePut(idb, record), ls |-> ls]
        ELSE LET existing == Append(ls, record)
             IN  [idb |-> idb,
                  ls |-> IF Len(existing) > UsageKeep
                         THEN SubSeq(existing, 1, UsageKeep)
                         ELSE existing]

storeUsageData(idb, ls, dbOpen, data, t) ==
    LET record == [data EXCEPT
                      !.id = IF data.id # 0 THEN data.id ELSE Date_now(t),
                      !.timestamp = Date_now(t)]
    IN  IF dbOpen THEN [idb |-> usagePut(idb, record), ls |-> ls]
        ELSE LET existing == Append(ls, record)
             IN  [idb |-> idb,
                  ls |-> IF Len(existing) > UsageKeep
                         THEN SubSeq(existing, Len(existing) - UsageKeep + 1,
                                     Len(existing))
                         ELSE existing]

addToSyncQueue(idb, ls, dbOpen, record) ==
    IF dbOpen THEN [idb |-> Append(idb, record), ls |-> ls]
    ELSE [idb |-> idb, ls |-> Append(ls, record)]

getSyncQueue(idb, ls, dbOpen) == IF dbOpen THEN idb ELSE ls

setPreference(idb, ls, dbOpen, value) ==
    LET record == [key |-> "theme", value |-> value]
    IN  IF dbOpen THEN [idb |-> record, ls |-> ls]
        ELSE [idb |-> idb, ls |-> record]

\* The collections, each on both backends.
Collections ==
    [secure |-> SecureStore,
     cache |-> CacheStore,
     usage |-> [idb |-> idbUsage, ls |-> lsUsage],
     prefs |-> [idb |-> idbPrefs, ls |-> lsPrefs],
     queue |-> [idb |-> idbQueue, ls |-> lsQueue]]

NoCache == [k \in CacheKeys |-> Null]

\* The object stores are cleared when the database is open.  From
\* localStorage go the keys secure_*, cache_*, pref_* and the keys of
\* APP_CONFIG.storageKeys; usage_data and sync_queue are none of these.
clearAllData(c, dbOpen) ==
    [secure |-> clearAllSecure(c.secure, dbOpen),
     cache |-> [idb |-> IF dbOpen THEN NoCache ELSE c.cache.idb,
                ls |-> NoCache],
     usage |-> [idb |-> IF dbOpen THEN <<>> ELSE c.usage.idb,
                ls |-> c.usage.ls],
     prefs |-> [idb |-> IF dbOpen THEN Null ELSE c.prefs.idb, ls |-> Null],
     queue |-> [idb |-> IF dbOpen THEN <<>> ELSE c.queue.idb,
                ls |-> c.queue.ls]]

UNCHANGED_store ==
    UNCHANGED <<app, restarts, cryptoAvail, timeVars, manualVars, googleVars,
                authVars, monitorVars, histVars, cryptoVars, secVars,
                fetchVars, syncVars,
                updVars, addVars, appVars>>

Store_storeUsageData(data) ==
    /\ app = "pwa"
    /\ Len(IF db THEN idbUsage ELSE lsUsage) < MaxItems
    /\ LET u == storeUsageData(idbUsage, lsUsage, db, data, now)
       IN  idbUsage' = u.idb /\ lsUsage' = u.ls
    /\ backends' = backends \cup {ActiveBackend}
    /\ UNCHANGED <<persistVars, storageVars, cacheVars, idbPrefs, lsPrefs,
                   idbQueue, lsQueue>>
    /\ UNCHANGED_store

Store_addToSyncQueue(record) ==
    /\ app = "pwa"
    /\ Len(IF db THEN idbQueue ELSE lsQueue) < MaxItems
    /\ LET q == addToSyncQueue(idbQueue, lsQueue, db, record)
       IN  idbQueue' = q.idb /\ lsQueue' = q.ls
    /\ backends' = backends \cup {ActiveBackend}
    /\ UNCHANGED <<persistVars, storageVars, cacheVars, idbPrefs, lsPrefs,
                   idbUsage, lsUsage>>
    /\ UNCHANGED_store

Store_setPreference(value) ==
    /\ app = "pwa"
    /\ LET p == setPreference(idbPrefs, lsPrefs, db, value)
       IN  idbPrefs' = p.idb /\ lsPrefs' = p.ls
    /\ backends' = backends \cup {ActiveBackend}
    /\ UNCHANGED <<persistVars, storageVars, cacheVars, idbUsage, lsUsage,
                   idbQueue, lsQueue>>
    /\ UNCHANGED_store

\* clearAllData runs to its end; the key in memory stays where it is.
Store_clearAllData ==
    /\ app = "pwa"
    /\ LET c == clearAllData(Collections, db)
       IN  /\ idbSecure' = c.secure.idb /\ lsSecure' = c.secure.ls
           /\ idbCache' = c.cache.idb /\ lsCache' = c.cache.ls
           /\ idbUsage' = c.usage.idb /\ lsUsage' = c.usage.ls
           /\ idbPrefs' = c.prefs.idb /\ lsPrefs' = c.prefs.ls
           /\ idbQueue' = c.queue.idb /\ lsQueue' = c.queue.ls
    /\ lsEncKey' = NoKey
    /\ backends' = backends \cup {ActiveBackend}
    /\ UNCHANGED <<keyCounter, storageVars, cacheResult, lastSet>>
    /\ UNCHANGED_store

\* A page load: a new StorageManager over the storage that was left.
Store_restart ==
    /\ app = "pwa"
    /\ storagePc = "ready"
    /\ restarts < MaxRestarts
    /\ restarts' = restarts + 1
    /\ db' = FALSE
    /\ encryptionKey' = NoKey
    /\ storagePc' = "encrypt"
    /\ backends' = {}
    /\ secOut' = Null
    /\ UNCHANGED <<app, cryptoAvail, timeVars, persistVars, manualVars,
                   googleVars, authVars, monitorVars, cacheVars, histVars,
                   cryptoVars, idbUsage, lsUsage, idbPrefs, lsPrefs,
                   idbQueue, lsQueue, fetchVars, syncVars, updVars,
                   addVars, appVars>>

(***************************************************************************)
(* StorageManager.encryptData / decryptData on their own                   *)
(***************************************************************************)
\* The keys a StorageManager can hold: none, or one of the generated keys.
StorageKeys == 0 .. MaxKeys

Storage_encryptData(data, key) ==
    /\ encInput' = [service |-> "StorageManager", data |-> data,
                    secret |-> key]
    /\ encBlob' = [result |-> Ok(encryptData(data, key)), altered |-> FALSE]
    /\ encOut' = Null
    /\ UNCHANGED_crypto

Storage_alterBlob ==
    /\ encInput # Null /\ encInput.service = "StorageManager"
    /\ ~encBlob.altered
    /\ \E changed \in AlterRecord(encBlob.result.value) :
          encBlob' = [result |-> Ok(changed), altered |-> TRUE]
    /\ encOut' = Null
    /\ UNCHANGED encInput
    /\ UNCHANGED_crypto

Storage_decryptData(key) ==
    /\ encInput # Null /\ encInput.service = "StorageManager"
    /\ encOut' = [secret |-> key,
                  result |-> decryptData(encBlob.result.value, key)]
    /\ UNCHANGED <<encInput, encBlob>>
    /\ UNCHANGED_crypto

(***************************************************************************)
(* Service worker (pwa): background sync                                   *)
(*                                                                         *)
(* The worker opens the database ClaudeUsageDB at version 1 and reads the  *)
(* object store pendingSync.  The StorageManager of the page opens the     *)
(* same database at version 2 and keeps its queue in the object store      *)
(* syncQueue, or in localStorage.  Once the page has opened the database,  *)
(* an open at version 1 fails with a VersionError.                         *)
(***************************************************************************)
openDB == ~db

getPendingUsageData == pendingSync

clearPendingUsageData == <<>>

\* processUsageData logs the item and does nothing else: it cannot fail.
processUsageData(done, data) == Append(done, data)

UNCHANGED_sync ==
    UNCHANGED <<app, restarts, cryptoAvail, timeVars, persistVars,
                storageVars, manualVars, googleVars, authVars, monitorVars,
                cacheVars, histVars, cryptoVars, secVars, storeVars,
                fetchVars,
                updVars, addVars, appVars>>

\* A write of the page into the store the worker reads.  Nothing in the
\* repository writes there; the store hands out the ids (autoIncrement).
Sync_enqueuePending(data) ==
    /\ app = "pwa"
    /\ openDB
    /\ pendingKey < MaxItems
    /\ pendingKey' = pendingKey + 1
    /\ pendingSync' = Append(pendingSync,
                             [id |-> pendingKey + 1, data |-> data])
    /\ UNCHANGED <<syncPc, pendingData, processed, queuedAtSync>>
    /\ UNCHANGED_sync

\* The sync event with tag sync-usage-data: syncUsageData up to its first
\* item.  A rejected open is rethrown, and the browser retries later.
Sync_syncUsageData ==
    /\ app = "pwa"
    /\ syncPc = "idle"
    /\ queuedAtSync' = getSyncQueue(idbQueue, lsQueue, db)
    /\ IF ~openDB
       THEN syncPc' = "failed" /\ UNCHANGED pendingData
       ELSE /\ pendingData' = getPendingUsageData
            /\ syncPc' = IF Len(getPendingUsageData) > 0 THEN "processing"
                         ELSE "done"
    /\ UNCHANGED <<pendingSync, pendingKey, processed>>
    /\ UNCHANGED_sync

\* One turn of the loop over pendingData.
Sync_processUsageData ==
    /\ syncPc = "processing"
    /\ processed' = processUsageData(processed, Head(pendingData))
    /\ pendingData' = Tail(pendingData)
    /\ syncPc' = IF Len(pendingData) = 1 THEN "clearing" ELSE "processing"
    /\ UNCHANGED <<pendingSync, pendingKey, queuedAtSync>>
    /\ UNCHANGED_sync

\* After the loop: clearPendingUsageData.
Sync_clearPendingUsageData ==
    /\ syncPc = "clearing"
    /\ IF openDB
       THEN pendingSync' = clearPendingUsageData /\ syncPc' = "done"
       ELSE UNCHANGED pendingSync /\ syncPc' = "failed"
    /\ UNCHANGED <<pendingKey, pendingData, processed, queuedAtSync>>
    /\ UNCHANGED_sync

\* The service worker's sync next to the page's storage manager.
NextSync ==
    \/ Storage_initializeEncryption
    \/ Storage_initializeIndexedDB
    \/ \E record \in SyncItems : Store_addToSyncQueue(record)
    \/ \E data \in UsageRecords : Sync_enqueuePending(data)
    \/ Sync_syncUsageData
    \/ Sync_processUsageData
    \/ Sync_clearPendingUsageData

(***************************************************************************)
(* Service worker: fetch events                                            *)
(*                                                                         *)
(* A URL is the sequence of its pieces: the origin, then "/" and the path  *)
(* segments in turn.  The patterns the worker looks for are sequences of   *)
(* pieces as well, so that String.includes is the search for a             *)
(* subsequence and Array.includes the search for an equal element.         *)
(***************************************************************************)
Origin == "https://app.example"
ApiOrigin == "https://api.anthropic.com"
ChromeExtension == "chrome-extension://abcdef"

Includes(url, pattern) ==
    \E i \in 1 .. (Len(url) - Len(pattern) + 1) :
        SubSeq(url, i, i + Len(pattern) - 1) = pattern

STATIC_ASSETS ==
    { <<"/">>,
      <<"/", "index.html">>,
      <<"/", "manifest.json">>,
      <<"/", "css", "/", "main.css">>,
      <<"/", "css", "/", "animations.css">>,
      <<"/", "css", "/", "auth.css">>,
      <<"/", "css", "/", "responsive.css">>,
      <<"/", "js", "/", "config.js">>,
      <<"/", "js", "/", "utils.js">>,
      <<"/", "js", "/", "storage.js">>,
      <<"/", "js", "/", "auth", "/", "google-auth.js">>,
      <<"/", "js", "/", "auth", "/", "manual-auth.js">>,
      <<"/", "js", "/", "auth", "/", "auth-manager.js">>,
      <<"/", "js", "/", "data-collector.js">>,
      <<"/", "js", "/", "charts.js">>,
      <<"/", "js", "/", "theme.js">>,
      <<"/", "js", "/", "dashboard.js">>,
      <<"/", "js", "/", "app.js">>,
      <<"https://fonts.googleapis.com", "/", "css2?family=Inter">>,
      <<"https://fonts.googleapis.com", "/", "icon?family=Material+Icons">>,
      <<"https://cdn.jsdelivr.net", "/", "npm", "/", "chart.js">> }

DYNAMIC_PATTERNS ==
    { <<"/", "assets", "/">>,
      <<"https://fonts.gstatic.com", "/">>,
      <<"https://lh3.googleusercontent.com", "/">> }

NETWORK_FIRST ==
    { <<"https://accounts.google.com", "/">>,
      <<"https://apis.google.com", "/">>,
      <<"/", "api", "/">> }

\* STATIC_ASSETS of the monitor deployment's worker
MONITOR_STATIC_ASSETS ==
    { <<"/">>,
      <<"/", "index.html">>,
      <<"/", "manifest.json">>,
      <<"/", "styles.css">>,
      <<"/", "js", "/", "app.js">>,
      <<"/", "js", "/", "api-service.js">>,
      <<"/", "js", "/", "storage-manager.js">>,
      <<"/", "js", "/", "crypto-utils.js">>,
      <<"https://fonts.googleapis.com", "/", "css2?family=Inter">>,
      <<"https://fonts.googleapis.com", "/",
        "icon?family=Material+Icons+Round">>,
      <<"https://cdn.jsdelivr.net", "/", "npm", "/", "chart.js@4.4.0", "/",
        "dist", "/", "chart.umd.min.js">> }

isNetworkFirst(url) == \E pattern \in NETWORK_FIRST : Includes(url, pattern)

isStaticAsset(url) ==
    \/ url \in STATIC_ASSETS
    \/ Includes(url, <<"/", "css", "/">>)
    \/ Includes(url, <<"/", "js", "/">>)
    \/ Includes(url, <<"/", "assets", "/">>)

isDynamicAsset(url) ==
    \E pattern \in DYNAMIC_PATTERNS : Includes(url, pattern)

\* request.url is absolute: the worker's origin stands before a path.
Absolute(asset) == IF asset[1] = "/" THEN <<Origin>> \o asset ELSE asset

\* The URLs the page of the monitor deployment asks for.
MonitorFetchUrls ==
    { <<Origin, "/", "index.html">>,
      <<Origin, "/", "js", "/", "app.js">>,
      <<ApiOrigin, "/", "v1", "/", "usage">> }

MonitorApiUrls == {u \in MonitorFetchUrls : u[1] = ApiOrigin}

\* The URLs the page of the pwa deployment asks for.
PwaFetchUrls ==
    { <<Origin, "/", "index.html">>,
      <<Origin, "/", "js", "/", "app.js">>,
      <<Origin, "/", "js", "/", "api", "/", "client.js">>,
      <<Origin, "/", "api", "/", "usage">>,
      <<Origin, "/", "assets", "/", "icons", "/", "icon-192.png">>,
      <<"https://accounts.google.com", "/", "gsi", "/", "client">>,
      <<"https://cdn.jsdelivr.net", "/", "npm", "/", "chart.js">>,
      <<"https://fonts.gstatic.com", "/", "s", "/", "inter.woff2">>,
      <<ChromeExtension, "/", "content.js">> }

FetchUrls == IF app = "pwa" THEN PwaFetchUrls ELSE MonitorFetchUrls

Methods == {"GET", "POST"}

Request(url, method) ==
    [url |-> url, method |-> method,
     destination |-> IF url = <<Origin, "/", "index.html">>
                     THEN "document" ELSE ""]

protocol(url) ==
    IF url[1] = ChromeExtension THEN "chrome-extension:" ELSE "https:"

\* fetch(request): a response with an ok status, a response with an error
\* status, or a rejection.
NetOutcomes == {"ok", "error", "fail"}

\* What the server sends for a URL changes with time: the body it had when
\* the worker was installed, and the body of a later deployment.
\* No body: cache.match has found nothing, no response has come.
NoBody == "undefined"
InstallBody == "body-1"
Bodies == {InstallBody, "body-2"}
\* The markup shell is what a later deployment changes.
BodiesOf(url) ==
    IF url = <<Origin, "/", "index.html">> THEN Bodies ELSE {InstallBody}
OfflineBody == "{offline: true}"
NotFoundBody == "not available offline"

NetworkResponse(net) ==
    [from |-> "network", status |-> IF net = "ok" THEN 200 ELSE 500,
     offline |-> FALSE]
CacheResponse == [from |-> "cache", status |-> 200, offline |-> FALSE]
OfflineResponse == [from |-> "worker", status |-> 503, offline |-> TRUE]
NotFoundResponse == [from |-> "worker", status |-> 404, offline |-> FALSE]
\* respondWith settled with undefined, or a fetch nobody answered for
NetworkError == [from |-> "none", status |-> 0, offline |-> FALSE]

\* A cache is the set of its entries, one for a URL at most.  An entry
\* keeps the response as it came: its body and its status.
cachePut(cache, url, body, status) ==
    {e \in cache : e.url # url}
        \cup {[url |-> url, body |-> body, status |-> status]}

cacheHas(cache, url) == \E e \in cache : e.url = url

\* cache.match: the body stored for the URL, Null for undefined
cacheMatch(cache, url) ==
    IF cacheHas(cache, url) THEN (CHOOSE e \in cache : e.url = url).body
    ELSE NoBody

\* caches.match: a look into every cache, in the order of their creation
cachesMatch(c, url) == cacheHas(c.static, url) \/ cacheHas(c.dynamic, url)

cachesMatchBody(c, url) ==
    IF cacheHas(c.static, url) THEN cacheMatch(c.static, url)
    ELSE cacheMatch(c.dynamic, url)

networkFirst(request, net, body, c) ==
    IF net # "fail"
    THEN [response |-> NetworkResponse(net), body |-> body,
          caches |-> IF net = "ok" /\ isDynamicAsset(request.url)
                     THEN [c EXCEPT
                             !.dynamic = cachePut(@, request.url, body,
                                                NetworkResponse(net).status)]
                     ELSE c]
    ELSE IF cachesMatch(c, request.url)
    THEN [response |-> CacheResponse,
          body |-> cachesMatchBody(c, request.url), caches |-> c]
    ELSE [response |-> OfflineResponse, body |-> OfflineBody, caches |-> c]

cacheFirst(request, net, body, c) ==
    IF cachesMatch(c, request.url)
    THEN [response |-> CacheResponse,
          body |-> cachesMatchBody(c, request.url), caches |-> c]
    ELSE IF net = "fail"
    THEN [response |-> NotFoundResponse, body |-> NotFoundBody, caches |-> c]
    ELSE [response |-> NetworkResponse(net), body |-> body,
          caches |-> IF net = "ok"
                     THEN [c EXCEPT
                             !.static = cachePut(@, request.url, body,
                                                NetworkResponse(net).status)]
                     ELSE c]

\* A stale-while-revalidate that answers as the worker's does and never
\* puts the fetched response into the cache.
staleWhileRevalidate_noRefresh(request, net, body, c) ==
    IF cacheHas(c.dynamic, request.url)
    THEN [response |-> CacheResponse,
          body |-> cacheMatch(c.dynamic, request.url), caches |-> c]
    ELSE IF net # "fail"
    THEN [response |-> NetworkResponse(net), body |-> body, caches |-> c]
    ELSE [response |-> NotFoundResponse, body |-> NotFoundBody, caches |-> c]

\* The fetch goes out whether or not the dynamic cache has a copy, and its
\* ok response replaces the copy.
staleWhileRevalidate(request, net, body, c) ==
    LET refreshed == IF net = "ok"
                     THEN [c EXCEPT
                             !.dynamic = cachePut(@, request.url, body,
                                                NetworkResponse(net).status)]
                     ELSE c
    IN  IF cacheHas(c.dynamic, request.url)
        THEN [response |-> CacheResponse,
              body |-> cacheMatch(c.dynamic, request.url),
              caches |-> refreshed]
        ELSE IF net # "fail"
        THEN [response |-> NetworkResponse(net), body |-> body,
              caches |-> refreshed]
        ELSE [response |-> NotFoundResponse, body |-> NotFoundBody,
              caches |-> refreshed]

\* No respondWith: the browser fetches as if there were no worker.
passThrough(request, net, body, c) ==
    IF net = "fail"
    THEN [response |-> NetworkError, body |-> NoBody, caches |-> c]
    ELSE [response |-> NetworkResponse(net), body |-> body, caches |-> c]

\* The strategy the fetch listener of the pwa worker picks.
strategyOf(request) ==
    IF request.method # "GET" \/ protocol(request.url) = "chrome-extension:"
    THEN "none"
    ELSE IF isNetworkFirst(request.url) THEN "networkFirst"
    ELSE IF isStaticAsset(request.url) THEN "cacheFirst"
    ELSE "staleWhileRevalidate"

\* The fetch listener of the monitor worker: the branch it takes, and what
\* it answers.
monitorStrategyOf(request) ==
    IF request.method # "GET" THEN "none"
    ELSE IF request.url[1] = ApiOrigin THEN "networkFirst"
    ELSE "cacheFirst"

monitorApiBranch(request, net, body, c) ==
    IF net # "fail"
    THEN [response |-> NetworkResponse(net), body |-> body,
          caches |-> [c EXCEPT !.dynamic = cachePut(@, request.url, body,
                                                NetworkResponse(net).status)]]
    ELSE IF cachesMatch(c, request.url)
    THEN [response |-> CacheResponse,
          body |-> cachesMatchBody(c, request.url), caches |-> c]
    ELSE [response |-> NetworkError, body |-> NoBody, caches |-> c]

monitorCacheFirst(request, net, body, c) ==
    IF cachesMatch(c, request.url)
    THEN [response |-> CacheResponse,
          body |-> cachesMatchBody(c, request.url), caches |-> c]
    ELSE IF net = "fail"
    THEN IF /\ request.destination = "document"
            /\ cachesMatch(c, <<Origin, "/", "index.html">>)
         THEN [response |-> CacheResponse,
               body |-> cachesMatchBody(c, <<Origin, "/", "index.html">>),
               caches |-> c]
         ELSE [response |-> NetworkError, body |-> NoBody, caches |-> c]
    ELSE [response |-> NetworkResponse(net), body |-> body,
          caches |-> IF net = "ok"
                     THEN [c EXCEPT
                             !.dynamic = cachePut(@, request.url, body,
                                                NetworkResponse(net).status)]
                     ELSE c]

\* The names of the caches in Cache Storage, in pieces: what stands before
\* the version, and the version.
CACHE_NAME ==
    IF app = "pwa" THEN <<"claude-monitor-", "v2.0.0">>
    ELSE <<"claude-monitor-", "v1.0.0">>
STATIC_CACHE == <<"claude-static-", "v2.0.0">>
DYNAMIC_CACHE ==
    IF app = "pwa" THEN <<"claude-dynamic-", "v2.0.0">>
    ELSE <<"claude-monitor-", "dynamic-", "v1.0.0">>

\* The caches an earlier generation of the worker has left behind, and a
\* cache of the same origin that is not the application's.
ForeignCache == <<"third-party-", "v1">>
OldCacheNames ==
    IF app = "pwa"
    THEN { <<"claude-monitor-", "v1.0.0">>,
           <<"claude-monitor-", "dynamic-", "v1.0.0">>,
           <<"claude-static-", "v1.5.0">>,
           ForeignCache }
    ELSE { <<"claude-monitor-", "v0.9.0">>,
           <<"claude-monitor-", "dynamic-", "v0.9.0">>,
           ForeignCache }

\* An activate listener that spares the dynamic caches.
activateDeletes_sparesDynamic(names) ==
    {n \in names : /\ n[1] = "claude-monitor-"
                   /\ n[2] # "dynamic-"
                   /\ n # CACHE_NAME}

\* The caches the activate listener deletes.
activateDeletes(names) ==
    IF app = "pwa"
    THEN {n \in names : n # STATIC_CACHE /\ n # DYNAMIC_CACHE /\ n # CACHE_NAME}
    ELSE {n \in names : /\ n[1] = "claude-monitor-"
                        /\ n # CACHE_NAME
                        /\ n # DYNAMIC_CACHE}

VERSION == "1.0.0"
MessageTypes == {"SKIP_WAITING", "CHECK_VERSION"}
NoCaches == [static |-> {}, dynamic |-> {}]

UNCHANGED_fetch ==
    UNCHANGED <<app, restarts, cryptoAvail, timeVars, persistVars,
                storageVars, manualVars, googleVars, authVars, monitorVars,
                cacheVars, histVars, cryptoVars, secVars, storeVars,
                syncVars,
                updVars, addVars, appVars>>

\* An earlier generation of the worker, or another library of the page,
\* has created a cache before this worker is installed.
Worker_previousGeneration ==
    /\ swState = "parsed"
    /\ swOldCaches = {}
    /\ swOldCaches' = OldCacheNames
    /\ UNCHANGED <<swCaches, fetchOut, swState, skipWaiting, msgOut>>
    /\ UNCHANGED_fetch

\* The install event.  cache.addAll stores every asset of the manifest or,
\* when one request of it fails, none; the listener catches the failure,
\* so that the installation completes in both cases.
Worker_install(addAllOk) ==
    /\ swState = "parsed"
    /\ swCaches' =
         IF addAllOk
         THEN [swCaches EXCEPT !.static =
                 {[url |-> Absolute(a), body |-> InstallBody,
                   status |-> 200] :
                     a \in IF app = "pwa" THEN STATIC_ASSETS
                           ELSE MONITOR_STATIC_ASSETS}]
         ELSE swCaches
    /\ skipWaiting' = addAllOk
    /\ swState' = "installed"
    /\ fetchOut' = Null
    /\ UNCHANGED <<swOldCaches, msgOut>>
    /\ UNCHANGED_fetch

\* The activate event: a worker that waits is activated when it has asked
\* not to wait or when the pages of the earlier worker are closed.
Worker_activate(clientsClosed) ==
    /\ swState = "installed"
    /\ skipWaiting \/ clientsClosed
    /\ swOldCaches' = swOldCaches \ activateDeletes(swOldCaches)
    /\ swState' = "activated"
    /\ UNCHANGED <<swCaches, fetchOut, skipWaiting, msgOut>>
    /\ UNCHANGED_fetch

\* A fetch event, from the listener to the response.
Worker_fetch(url, method, net, body) ==
    /\ swState = "activated"
    /\ LET request == Request(url, method)
           strategy == IF app = "pwa" THEN strategyOf(request)
                       ELSE monitorStrategyOf(request)
           r == CASE strategy = "none" ->
                        passThrough(request, net, body, swCaches)
                  [] strategy = "networkFirst" /\ app = "pwa" ->
                        networkFirst(request, net, body, swCaches)
                  [] strategy = "networkFirst" /\ app # "pwa" ->
                        monitorApiBranch(request, net, body, swCaches)
                  [] strategy = "cacheFirst" /\ app = "pwa" ->
                        cacheFirst(request, net, body, swCaches)
                  [] strategy = "cacheFirst" /\ app # "pwa" ->
                        monitorCacheFirst(request, net, body, swCaches)
                  [] OTHER ->
                        staleWhileRevalidate(request, net, body, swCaches)
       IN  /\ fetchOut' = [request |-> request, net |-> net,
                           sent |-> IF net = "fail" THEN NoBody ELSE body,
                           strategy |-> strategy,
                           wasCached |-> cachesMatch(swCaches, request.url),
                           staticBody |->
                               cacheMatch(swCaches.static, request.url),
                           dynamicBody |->
                               cacheMatch(swCaches.dynamic, request.url),
                           response |-> r.response,
                           body |-> r.body]
           /\ swCaches' = r.caches
    /\ msgOut' = Null
    /\ UNCHANGED <<swOldCaches, swState, skipWaiting>>
    /\ UNCHANGED_fetch

\* The sync events of the monitor worker (sync and periodicsync),
\* syncUsageData:
\* every API request in the dynamic cache is fetched again and the response
\* is put in its place; a rejected fetch is caught and leaves the entry.
\* The DATA_SYNCED message goes to the pages and changes nothing here.
apiRequests(cache) == {e.url : e \in {x \in cache : x.url[1] = ApiOrigin}}

RECURSIVE syncUsageData(_, _, _, _)
syncUsageData(cache, urls, nets, body) ==
    IF urls = {} THEN cache
    ELSE LET url == CHOOSE u \in urls : TRUE
             put == IF nets[url] = "fail" THEN cache
                    ELSE cachePut(cache, url, body,
                                  NetworkResponse(nets[url]).status)
         IN  syncUsageData(put, urls \ {url}, nets, body)

Worker_syncUsageData(nets, body) ==
    /\ app # "pwa"
    /\ swState = "activated"
    /\ swCaches' = [swCaches EXCEPT
                      !.dynamic = syncUsageData(@, apiRequests(@), nets,
                                                body)]
    /\ fetchOut' = Null
    /\ msgOut' = Null
    /\ UNCHANGED <<swOldCaches, swState, skipWaiting>>
    /\ UNCHANGED_fetch

\* The message CLEAR_CACHE: every cache of the origin is deleted.  The
\* monitor worker answers on the port of the message, the pwa worker does
\* not answer.
Worker_clearAllCaches ==
    /\ swState # "parsed"
    /\ swCaches' = NoCaches
    /\ swOldCaches' = {}
    /\ fetchOut' = Null
    /\ msgOut' = [type |-> "CLEAR_CACHE",
                  acted |-> TRUE,
                  reply |-> IF app = "pwa" THEN Null
                            ELSE [cleared |-> TRUE]]
    /\ UNCHANGED <<swState, skipWaiting>>
    /\ UNCHANGED_fetch

\* The messages SKIP_WAITING and CHECK_VERSION.  The message listener of
\* the pwa worker has no branch for them.
Worker_message(type) ==
    /\ swState # "parsed"
    /\ skipWaiting' = IF app # "pwa" /\ type = "SKIP_WAITING" THEN TRUE
                      ELSE skipWaiting
    /\ msgOut' = [type |-> type,
                  acted |-> app # "pwa",
                  reply |-> IF app # "pwa" /\ type = "CHECK_VERSION"
                            THEN [version |-> VERSION]
                            ELSE Null]
    /\ fetchOut' = Null
    /\ UNCHANGED <<swCaches, swOldCaches, swState>>
    /\ UNCHANGED_fetch

NextFetch ==
    \/ Worker_previousGeneration
    \/ \E addAllOk \in BOOLEAN : Worker_install(addAllOk)
    \/ \E clientsClosed \in BOOLEAN : Worker_activate(clientsClosed)
    \/ \E url \in FetchUrls, method \in Methods, net \in NetOutcomes :
          \E body \in BodiesOf(url) : Worker_fetch(url, method, net, body)
    \/ \E nets \in [MonitorApiUrls -> NetOutcomes], body \in Bodies :
          Worker_syncUsageData(nets, body)
    \/ Worker_clearAllCaches
    \/ \E type \in MessageTypes : Worker_message(type)

(***************************************************************************)
(* Specifications of the storage layer                                     *)
(***************************************************************************)
\* The two encryption services as functions: a value is encrypted, the blob
\* may be changed, and it is decrypted under any password or key.
NextCrypto ==
    \/ \E data \in CuValues, password \in Passwords, salt \in Salts,
          iv \in IVs : Crypto_encrypt(data, password, salt, iv)
    \/ \E place \in FlipPlaces : Crypto_flipByte(place)
    \/ \E password \in Passwords : Crypto_decrypt(password)
    \/ \E data \in SecData, key \in StorageKeys :
          Storage_encryptData(data, key)
    \/ Storage_alterBlob
    \/ \E key \in StorageKeys : Storage_decryptData(key)

\* The secure collection: the storage manager starts, the application
\* writes and reads secure records while it starts and afterwards, a record
\* is changed behind its back, everything is cleared, the page reloads.
NextSecure ==
    \/ Storage_initializeEncryption
    \/ Storage_initializeIndexedDB
    \/ \E data \in SecData : Sec_setSecureData(data)
    \/ \E readOk \in ReadOutcomes : Sec_getSecureData(readOk)
    \/ Sec_alterRecord
    \/ Store_clearAllData
    \/ Store_restart

\* The five collections within one page load: the storage manager starts,
\* the application writes to every collection, everything is cleared.
NextStore ==
    \/ Storage_initializeEncryption
    \/ Storage_initializeIndexedDB
    \/ Sec_setSecureData([email |-> LatinEmail, auth_type |-> "password"])
    \/ \E data \in UsageRecords : Store_storeUsageData(data)
    \/ Store_addToSyncQueue("item-a")
    \/ \E value \in PrefValues : Store_setPreference(value)
    \/ Cache_setCacheData("usage_summary", "v1")
    \/ Store_clearAllData

(***************************************************************************)
(* StorageManager.storeUsageData over a long series of records             *)
(***************************************************************************)
\* The most records the series stores.
MaxStored == 1002

UNCHANGED_upd ==
    UNCHANGED <<app, restarts, cryptoAvail, timeVars, persistVars,
                storageVars, manualVars, googleVars, authVars, monitorVars,
                cacheVars, histVars, cryptoVars, secVars, fetchVars,
                syncVars, idbPrefs, lsPrefs, idbQueue, lsQueue, backends,
                addVars, appVars>>

\* The caller numbers its records: the id of a record is its place in the
\* series.
Store_storeUsageSeries ==
    /\ app = "pwa"
    /\ storagePc = "ready"
    /\ usageSerial < MaxStored
    /\ usageSerial' = usageSerial + 1
    /\ LET data == [source |-> "web", tokens |-> 100,
                    id |-> usageSerial + 1, timestamp |-> 0]
           u == storeUsageData(idbUsage, lsUsage, db, data, now)
       IN  idbUsage' = u.idb /\ lsUsage' = u.ls
    /\ UNCHANGED <<isUpdating, dcCalls, manualCalls, pendingStore, rtCalls,
                   monPaused, monUsage>>
    /\ UNCHANGED_upd

\* What the callers of storeUsageData hand over: a record without id and
\* timestamp, a manual entry with the time it was entered at, and a record
\* that carries an id.
UsageInputs ==
    UsageRecords \cup
    { [source |-> "manual", tokens |-> 250, id |-> 0,
       timestamp |-> Date_now(0)],
      [source |-> "import", tokens |-> 75, id |-> 7, timestamp |-> 0] }

NextUsage ==
    \/ Storage_initializeEncryption
    \/ Storage_initializeIndexedDB
    \/ \E data \in UsageInputs : Store_storeUsageData(data)
    \/ \E d \in CacheJumps : CacheTick(d)

NextUsageSeries ==
    \/ Storage_initializeEncryption
    \/ Storage_initializeIndexedDB
    \/ Store_storeUsageSeries

(***************************************************************************)
(* StorageManager (pwa): getUsageData                                      *)
(***************************************************************************)
\* Dates are day numbers (the code compares ISO date strings, which order
\* as the days do); 0 and "" stand for a filter that is not supplied.
NoFilter == [startDate |-> 0, endDate |-> 0, source |-> "", model |-> ""]
Filters ==
    { NoFilter,
      [NoFilter EXCEPT !.startDate = 2],
      [NoFilter EXCEPT !.startDate = 1, !.endDate = 2],
      [NoFilter EXCEPT !.source = "web"],
      [NoFilter EXCEPT !.endDate = 3, !.model = "sonnet"] }

QueryInputs ==
    { [source |-> "web", tokens |-> 100, id |-> 0, timestamp |-> 0,
       date |-> 1, model |-> "sonnet"],
      [source |-> "manual", tokens |-> 250, id |-> 0, timestamp |-> 0,
       date |-> 2, model |-> "opus"],
      [source |-> "import", tokens |-> 75, id |-> 7, timestamp |-> 0,
       date |-> 3, model |-> "sonnet"] }

\* Array.prototype.filter
RECURSIVE filter(_, _, _)
filter(data, field, value) ==
    IF data = <<>> THEN <<>>
    ELSE LET item == Head(data)
             keep == CASE field = "startDate" -> item.date >= value
                       [] field = "endDate" -> item.date <= value
                       [] field = "source" -> item.source = value
                       [] OTHER -> item.model = value
             rest == filter(Tail(data), field, value)
         IN  IF keep THEN <<item>> \o rest ELSE rest

\* getAll reads the object store in the order of its keys, and the store
\* usageData is kept in that order; a failed transaction is caught and
\* answered with [].
getUsageData(idb, ls, dbOpen, filters, readOk) ==
    IF dbOpen /\ ~readOk THEN <<>>
    ELSE LET data == IF dbOpen THEN idb ELSE ls
             d1 == IF filters.startDate # 0
                   THEN filter(data, "startDate", filters.startDate)
                   ELSE data
             d2 == IF filters.endDate # 0
                   THEN filter(d1, "endDate", filters.endDate) ELSE d1
             d3 == IF filters.source # ""
                   THEN filter(d2, "source", filters.source) ELSE d2
         IN  IF filters.model # ""
             THEN filter(d3, "model", filters.model) ELSE d3

Store_getUsageData(filters, readOk) ==
    /\ app = "pwa"
    /\ storagePc = "ready"
    /\ queryOut' = [filters |-> filters, readOk |-> readOk, fromDb |-> db,
                    stored |-> IF db THEN idbUsage ELSE lsUsage,
                    result |-> getUsageData(idbUsage, lsUsage, db, filters,
                                            readOk)]
    /\ UNCHANGED <<app, restarts, cryptoAvail, timeVars, pwaVars,
                   monitorVars, cacheVars, histVars, cryptoVars, secVars,
                   storeVars, fetchVars, syncVars, updVars, migVars,
                   appVars, sweep>>

NextQuery ==
    \/ Storage_initializeEncryption
    \/ Storage_initializeIndexedDB
    \/ \E data \in QueryInputs : Store_storeUsageData(data)
    \/ \E d \in CacheJumps : CacheTick(d)
    \/ \E filters \in Filters, readOk \in ReadOutcomes :
          Store_getUsageData(filters, readOk)

(***************************************************************************)
(* StorageManager (pwa): migrateLegacyData                                 *)
(***************************************************************************)
\* Keys are a prefix and a name.
storageKeys_userProfile == <<"claude_", "user_profile">>
LegacyKeys ==
    {storageKeys_userProfile, <<"claude_", "usage_data">>, <<"claude_", "auth_token">>}
\* key.replace('claude_', '')
secureKey(key) == IF Head(key) = "claude_" THEN Tail(key) ELSE key
ImportKeys == {secureKey(k) : k \in LegacyKeys}

NoItem == [item |-> FALSE]
NoLegacy == [k \in LegacyKeys |-> NoItem]
\* What the earlier version left under a key: the JSON text of a value,
\* or, for the token, the bare token.
LegacyItems(key) ==
    {[item |-> TRUE, json |-> TRUE,
      value |-> [email |-> LatinEmail, auth_type |-> "password",
                 was |-> key[2]]]}
    \cup (IF key[2] = "auth_token"
          THEN {[item |-> TRUE, json |-> FALSE, value |-> Null]}
          ELSE {})
LegacyStates ==
    {l \in [LegacyKeys -> UNION {LegacyItems(k) : k \in LegacyKeys}
                            \cup {NoItem}] :
        /\ \A k \in LegacyKeys : l[k] = NoItem \/ l[k] \in LegacyItems(k)
        /\ l # NoLegacy}

parseLegacy(item) == IF item.json THEN Ok(item.value) ELSE Throw

\* The secure collection under any key, on both backends.
secureRecords(key) ==
    IF key = storageKeys_userProfile THEN SecureStore
    ELSE IF key \in ImportKeys
    THEN [idb |-> secExtra.idb[key], ls |-> secExtra.ls[key]]
    ELSE [idb |-> Null, ls |-> Null]

\* One turn of the loop of migrateLegacyData, on the state m of the legacy
\* items, the imported records and the imports made.
migrateKey(m, key, dbOpen, encKey, writeOk) ==
    LET data == m.legacy[key]
        parsed == parseLegacy(data)
        to == secureKey(key)
        stored == setSecureData([idb |-> m.extra.idb[to],
                                 ls |-> m.extra.ls[to]],
                                dbOpen, encKey, parsed.value)
    IN  IF data = NoItem THEN m
        ELSE IF ~parsed.ok \/ (dbOpen /\ ~writeOk) THEN m
        ELSE [legacy |-> [m.legacy EXCEPT ![key] = NoItem],
              extra |-> [idb |-> [m.extra.idb EXCEPT ![to] = stored.idb],
                         ls |-> [m.extra.ls EXCEPT ![to] = stored.ls]],
              made |-> [m.made EXCEPT ![key] = Append(@, parsed.value)]]

RECURSIVE migrateLegacyData(_, _, _, _, _)
migrateLegacyData(m, keys, dbOpen, encKey, writeOk) ==
    IF keys = <<>> THEN m
    ELSE migrateLegacyData(
             migrateKey(m, Head(keys), dbOpen, encKey, writeOk[Head(keys)]),
             Tail(keys), dbOpen, encKey, writeOk)

legacyKeys ==
    <<storageKeys_userProfile, <<"claude_", "usage_data">>, <<"claude_", "auth_token">>>>

\* The earlier version has written its flat records; the new version is
\* loaded for the first time.
Legacy_upgrade(l) ==
    /\ app = "pwa"
    /\ storagePc = "encrypt" /\ restarts = 0
    /\ lsLegacy = NoLegacy /\ migratePc = "pending"
    /\ \A k \in LegacyKeys : imports[k] = <<>>
    /\ lsLegacy' = l
    /\ UNCHANGED <<app, restarts, cryptoAvail, timeVars, pwaVars,
                   monitorVars, cacheVars, histVars, cryptoVars, secVars,
                   storeVars, fetchVars, syncVars, updVars, queryOut,
                   secExtra, migratePc, imports, appVars, sweep>>

\* init, after initializeIndexedDB.  writeOk: by key, the IndexedDB
\* transaction of its setSecureData succeeds.
Storage_migrateLegacyData(writeOk) ==
    /\ app = "pwa"
    /\ storagePc = "ready" /\ migratePc = "pending"
    /\ LET m == migrateLegacyData(
                    [legacy |-> lsLegacy, extra |-> secExtra,
                     made |-> imports],
                    legacyKeys, db, encryptionKey, writeOk)
       IN  /\ lsLegacy' = m.legacy
           /\ secExtra' = m.extra
           /\ imports' = m.made
    /\ migratePc' = "done"
    /\ UNCHANGED <<app, restarts, cryptoAvail, timeVars, pwaVars,
                   monitorVars, cacheVars, histVars, cryptoVars, secVars,
                   storeVars, fetchVars, syncVars, updVars, queryOut,
                   appVars, sweep>>

\* A page load: a new StorageManager over the storage that was left.
Migrate_restart ==
    /\ app = "pwa"
    /\ migratePc = "done"
    /\ restarts < MaxRestarts
    /\ restarts' = restarts + 1
    /\ db' = FALSE
    /\ encryptionKey' = NoKey
    /\ storagePc' = "encrypt"
    /\ migratePc' = "pending"
    /\ UNCHANGED <<app, cryptoAvail, timeVars, persistVars, manualVars,
                   googleVars, authVars, monitorVars, cacheVars, histVars,
                   cryptoVars, secVars, storeVars, fetchVars, syncVars,
                   updVars, queryOut, lsLegacy, secExtra, imports,
                   appVars, sweep>>

WriteOutcomesByKey ==
    IF db THEN [LegacyKeys -> BOOLEAN] ELSE {[k \in LegacyKeys |-> TRUE]}

NextMigrate ==
    \/ \E l \in LegacyStates : Legacy_upgrade(l)
    \/ Storage_initializeEncryption
    \/ Storage_initializeIndexedDB
    \/ \E writeOk \in WriteOutcomesByKey : Storage_migrateLegacyData(writeOk)
    \/ Migrate_restart

(***************************************************************************)
(* DataCollector (pwa): performUpdate and addManualEntry                   *)
(*                                                                         *)
(* A call is cut where it awaits the storage layer; between two cuts       *)
(* another call may run.                                                   *)
(***************************************************************************)
PendingKey == "pending_manual_entries"
\* addManualEntry: setCacheData(..., 3600000)
PendingTTL == Ticks(3600000 \div 1000)
\* The manual entries of the session, by their number of tokens.
ManualTokens == {250, 400}
CollectorJumps == {Ticks(5 * 60), PendingTTL + 1}

PendingCache == IF db THEN pendingStore.idb[PendingKey]
                ELSE pendingStore.ls[PendingKey]

\* getCacheData(...) || []
pendingOrEmpty(value) == IF value = NullData THEN <<>> ELSE value

\* performUpdate, up to the first read of collectManualData.  A call that
\* finds isUpdating set returns, and so does a call in a hidden page:
\* neither changes the state.  collectWebChatData stores a record when
\* its source has new usage.
Collector_performUpdate(increment) ==
    /\ app = "pwa"
    /\ storagePc = "ready"
    /\ ~isUpdating
    /\ isUpdating' = TRUE
    /\ dcCalls' = Append(dcCalls, [pc |-> "read", pendingEntries |-> <<>>])
    /\ IF increment /\ Len(IF db THEN idbUsage ELSE lsUsage) < MaxItems
       THEN LET data == [source |-> "web", tokens |-> 100, id |-> 0,
                         timestamp |-> Date_now(now)]
                u == storeUsageData(idbUsage, lsUsage, db, data, now)
            IN  idbUsage' = u.idb /\ lsUsage' = u.ls
       ELSE UNCHANGED <<idbUsage, lsUsage>>
    /\ UNCHANGED <<usageSerial, manualCalls, pendingStore, rtCalls,
                   monPaused, monUsage>>
    /\ UNCHANGED_upd

\* collectManualData: the read of the pending entries
Collector_readPending(i) ==
    /\ dcCalls[i].pc = "read"
    /\ LET r == getCacheData(pendingStore, db, PendingKey, now, TRUE)
           entries == pendingOrEmpty(r.value)
       IN  /\ pendingStore' = r.cache
           /\ dcCalls' = [dcCalls EXCEPT ![i] =
                 IF entries = <<>>
                 THEN [pc |-> "cache", pendingEntries |-> <<>>]
                 ELSE [pc |-> "store", pendingEntries |-> entries]]
    /\ UNCHANGED <<usageSerial, isUpdating, manualCalls, rtCalls, monPaused,
                   monUsage, idbUsage, lsUsage>>
    /\ UNCHANGED_upd

\* collectManualData: one round of the loop over the pending entries
Collector_storePending(i) ==
    /\ dcCalls[i].pc = "store"
    /\ LET entry == Head(dcCalls[i].pendingEntries)
           data == [source |-> "manual", tokens |-> entry.tokens,
                    id |-> 0, timestamp |-> entry.timestamp]
           u == storeUsageData(idbUsage, lsUsage, db, data, now)
           rest == Tail(dcCalls[i].pendingEntries)
       IN  /\ idbUsage' = u.idb /\ lsUsage' = u.ls
           /\ dcCalls' = [dcCalls EXCEPT ![i] =
                 [pc |-> IF rest = <<>> THEN "remove" ELSE "store",
                  pendingEntries |-> rest]]
    /\ UNCHANGED <<usageSerial, isUpdating, manualCalls, pendingStore,
                   rtCalls, monPaused, monUsage>>
    /\ UNCHANGED_upd

\* collectManualData: removeCacheData('pending_manual_entries')
Collector_removePending(i) ==
    /\ dcCalls[i].pc = "remove"
    /\ pendingStore' = removeCacheData(pendingStore, db, PendingKey)
    /\ dcCalls' = [dcCalls EXCEPT ![i] =
                      [pc |-> "cache", pendingEntries |-> <<>>]]
    /\ UNCHANGED <<usageSerial, isUpdating, manualCalls, rtCalls, monPaused,
                   monUsage, idbUsage, lsUsage>>
    /\ UNCHANGED_upd

\* aggregateData, cacheData (the summaries of the cache collection, which
\* are not kept here) and the finally block
Collector_finishUpdate(i) ==
    /\ dcCalls[i].pc = "cache"
    /\ dcCalls' = SubSeq(dcCalls, 1, i - 1)
                     \o SubSeq(dcCalls, i + 1, Len(dcCalls))
    /\ isUpdating' = FALSE
    /\ UNCHANGED <<usageSerial, manualCalls, pendingStore, rtCalls,
                   monPaused, monUsage, idbUsage, lsUsage>>
    /\ UNCHANGED_upd

\* addManualEntry: the entry is valid; the pending entries are read
Collector_addManualEntry(tokens) ==
    /\ app = "pwa"
    /\ storagePc = "ready"
    /\ manualCalls[tokens].pc = "new"
    /\ LET r == getCacheData(pendingStore, db, PendingKey, now, TRUE)
       IN  /\ pendingStore' = r.cache
           /\ manualCalls' = [manualCalls EXCEPT ![tokens] =
                 [pc |-> "push", pending |-> pendingOrEmpty(r.value)]]
    /\ UNCHANGED <<usageSerial, isUpdating, dcCalls, rtCalls, monPaused,
                   monUsage, idbUsage, lsUsage>>
    /\ UNCHANGED_upd

\* addManualEntry: the entry is pushed and the list is written back; the
\* event manual-entry-added tells the page that the entry is taken
Collector_pushManualEntry(tokens) ==
    /\ manualCalls[tokens].pc = "push"
    /\ LET entry == [tokens |-> tokens, timestamp |-> Date_now(now)]
           pending == Append(manualCalls[tokens].pending, entry)
       IN  pendingStore' = setCacheData(pendingStore, db, PendingKey,
                                        pending, PendingTTL, now)
    /\ manualCalls' = [manualCalls EXCEPT ![tokens] =
                          [pc |-> "added", pending |-> <<>>]]
    /\ UNCHANGED <<usageSerial, isUpdating, dcCalls, rtCalls, monPaused,
                   monUsage, idbUsage, lsUsage>>
    /\ UNCHANGED_upd

\* The clock of the collector's session.
Collector_tick(d) ==
    /\ app = "pwa"
    /\ storagePc = "ready"
    /\ ticks < MaxTicks
    /\ ticks' = ticks + 1
    /\ now' = now + d
    /\ UNCHANGED <<app, restarts, cryptoAvail, persistVars, storageVars,
                   manualVars, googleVars, authVars, monitorVars, cacheVars,
                   histVars, extVars>>

(***************************************************************************)
(* ClaudeUsageMonitor (monitor): the updates of the dashboard              *)
(*                                                                         *)
(* ApiService.fetchUsageData makes its data, waits a second and saves the  *)
(* data; the calls end in the order they began in.                         *)
(***************************************************************************)
\* The most updates that wait for fetchUsageData at a time, in the model.
MaxInFlight == 2

UpdateTriggers == {"interval", "resume", "refresh"}

\* The interval of startRealTimeUpdates fires, the timer of resumeUpdates
\* fires, or refreshDashboard is called: fetchUsageData begins.
Monitor_beginUpdate(trigger) ==
    /\ app = "monitor"
    /\ monPc = "ready"
    /\ monScreen = "dashboard"
    /\ trigger = "interval" => ~monPaused
    /\ Len(rtCalls) < MaxInFlight
    /\ rtCalls' = Append(rtCalls, trigger)
    /\ monPaused' = IF trigger = "resume" THEN FALSE ELSE monPaused
    /\ UNCHANGED <<usageSerial, isUpdating, dcCalls, manualCalls,
                   pendingStore, monUsage, idbUsage, lsUsage>>
    /\ UNCHANGED_upd

\* pauseUpdates: the page is hidden or the window has lost the focus
Monitor_pauseUpdates ==
    /\ app = "monitor"
    /\ monPc = "ready"
    /\ ~monPaused
    /\ monPaused' = TRUE
    /\ UNCHANGED <<usageSerial, isUpdating, dcCalls, manualCalls,
                   pendingStore, rtCalls, monUsage, idbUsage, lsUsage>>
    /\ UNCHANGED_upd

\* fetchUsageData ends: StorageManager.saveUsageData(data), and the caller
\* takes the data for this.usageData
Monitor_endUpdate ==
    /\ rtCalls # <<>>
    /\ monUsage' = [from |-> Head(rtCalls), others |-> Len(rtCalls) - 1]
    /\ rtCalls' = Tail(rtCalls)
    /\ UNCHANGED <<usageSerial, isUpdating, dcCalls, manualCalls,
                   pendingStore, monPaused, idbUsage, lsUsage>>
    /\ UNCHANGED_upd

NextUpdate ==
    \/ Storage_initializeEncryption
    \/ Storage_initializeIndexedDB
    \/ \E increment \in BOOLEAN : Collector_performUpdate(increment)
    \/ \E i \in DOMAIN dcCalls : Collector_readPending(i)
    \/ \E i \in DOMAIN dcCalls : Collector_storePending(i)
    \/ \E i \in DOMAIN dcCalls : Collector_removePending(i)
    \/ \E i \in DOMAIN dcCalls : Collector_finishUpdate(i)
    \/ \E tokens \in ManualTokens : Collector_addManualEntry(tokens)
    \/ \E tokens \in ManualTokens : Collector_pushManualEntry(tokens)
    \/ \E d \in CollectorJumps : Collector_tick(d)
    \/ Monitor_init
    \/ Monitor_handleLogin(LatinEmail, FALSE, TRUE)
    \/ Monitor_handleLogout
    \/ \E trigger \in UpdateTriggers : Monitor_beginUpdate(trigger)
    \/ Monitor_pauseUpdates
    \/ Monitor_endUpdate

(***************************************************************************)
(* StorageManager (pwa): cleanExpiredCache as a call that settles          *)
(*                                                                         *)
(* On IndexedDB the call awaits performDBOperation with a cursor callback: *)
(* the promise of performDBOperation is resolved by request.onsuccess only *)
(* when no cursor callback is given, and rejected by an error of the       *)
(* request or the transaction.                                             *)
(***************************************************************************)
UNCHANGED_sweep ==
    UNCHANGED <<app, restarts, cryptoAvail, timeVars, lsEncKey, keyCounter,
                storageVars, cacheResult, lastSet, manualVars, googleVars,
                authVars, monitorVars, histVars, idbSecure, lsSecure,
                cryptoVars, secVars, storeVars, fetchVars, syncVars, updVars,
                queryOut, migVars, appVars>>

\* The keys the cursor over the index expires, bounded above by t, visits.
cursorRange(c, t) ==
    {k \in CacheKeys : c.idb[k] # Null /\ c.idb[k].expires <= t}

\* the hourly timer calls cleanExpiredCache
Sweep_cleanExpiredCache ==
    /\ app = "pwa"
    /\ storagePc = "ready"
    /\ sweep.pc \in {"idle", "settled"}
    /\ sweep' = [pc |-> "running", at |-> now, failed |-> FALSE]
    /\ UNCHANGED <<idbCache, lsCache>>
    /\ UNCHANGED_sweep

\* localStorage: the loop over the keys, then the call returns
Sweep_localLoop ==
    /\ sweep.pc = "running" /\ ~db
    /\ LET c == cleanExpiredCache(CacheStore, FALSE, sweep.at)
       IN  idbCache' = c.idb /\ lsCache' = c.ls
    /\ sweep' = [sweep EXCEPT !.pc = "settled"]
    /\ UNCHANGED_sweep

\* IndexedDB: request.onsuccess with a cursor: delete and continue
Sweep_cursorStep ==
    /\ sweep.pc = "running" /\ db
    /\ \E k \in cursorRange(CacheStore, sweep.at) :
          idbCache' = [idbCache EXCEPT ![k] = Null]
    /\ UNCHANGED <<lsCache, sweep>>
    /\ UNCHANGED_sweep

\* IndexedDB: request.onsuccess with null, the end of the range: the
\* callback does nothing, and nothing resolves the promise
Sweep_cursorEnd ==
    /\ sweep.pc = "running" /\ db
    /\ cursorRange(CacheStore, sweep.at) = {}
    /\ sweep' = [sweep EXCEPT !.pc = "awaiting"]
    /\ UNCHANGED <<idbCache, lsCache>>
    /\ UNCHANGED_sweep

\* IndexedDB: the request or the transaction fails: the promise is
\* rejected, cleanExpiredCache catches and returns
Sweep_transactionError ==
    /\ sweep.pc = "running" /\ db
    /\ sweep' = [sweep EXCEPT !.pc = "settled", !.failed = TRUE]
    /\ UNCHANGED <<idbCache, lsCache>>
    /\ UNCHANGED_sweep

NextSweep ==
    \/ Storage_initializeEncryption
    \/ Storage_initializeIndexedDB
    \/ \E key \in CacheKeys : Cache_setCacheData(key, "v1")
    \/ \E d \in CacheJumps : CacheTick(d)
    \/ Sweep_cleanExpiredCache
    \/ Sweep_localLoop
    \/ Sweep_cursorStep
    \/ Sweep_cursorEnd
    \/ Sweep_transactionError

(***************************************************************************)
(* The session and the collector's polling (pwa)                           *)
(*                                                                         *)
(* startUpdates is called by AuthManager.initializeDashboard whenever the  *)
(* dashboard is shown; stopUpdates is called by DataCollector.cleanup      *)
(* only, which nothing calls.                                              *)
(***************************************************************************)
\* The interval of startUpdates fires (and its first call of
\* performUpdate).
Collector_intervalTick(increment) ==
    /\ updateInterval
    /\ Collector_performUpdate(increment)

NextSession ==
    \/ Storage_initializeEncryption
    \/ Storage_initializeIndexedDB
    \/ \E readOk \in ReadOutcomes : Manual_checkExistingSession(readOk)
    \/ Google_libraryTimeout
    \/ \E readOk \in ReadOutcomes : Google_checkExistingSession(readOk)
    \/ Auth_init
    \/ \E writeOk \in WriteOutcomes :
          Manual_handleLogin(LatinEmail, "password", FALSE, writeOk)
    \/ Auth_signOut
    \/ \E increment \in BOOLEAN : Collector_intervalTick(increment)
    \/ \E i \in DOMAIN dcCalls : Collector_readPending(i)
    \/ \E i \in DOMAIN dcCalls : Collector_storePending(i)
    \/ \E i \in DOMAIN dcCalls : Collector_removePending(i)
    \/ \E i \in DOMAIN dcCalls : Collector_finishUpdate(i)
    \/ \E tokens \in ManualTokens : Collector_addManualEntry(tokens)
    \/ \E tokens \in ManualTokens : Collector_pushManualEntry(tokens)

(***************************************************************************)
(* Specification                                                           *)
(***************************************************************************)
Init ==
    /\ app \in {"pwa", "monitor"}
    /\ cryptoAvail \in BOOLEAN
    /\ now = 0 /\ ticks = 0 /\ restarts = 0
    /\ idbSecure = Null /\ lsSecure = Null /\ lsEncKey = NoKey
    /\ keyCounter = 0
    /\ db = FALSE /\ encryptionKey = NoKey /\ storagePc = "encrypt"
    /\ manualUser = Null /\ manualPc = "init"
    /\ googleUser = Null /\ googlePc = "init"
    /\ authUser = Null /\ authMethod = "none" /\ authPc = "init"
    /\ screen = "loading"
    /\ errorShown = FALSE
    /\ monCreds = Null /\ monSession = Null
    /\ monScreen = "splash" /\ monPc = "init"
    /\ idbCache = [k \in CacheKeys |-> Null]
    /\ lsCache = [k \in CacheKeys |-> Null]
    /\ cacheResult = Null
    /\ lastSet = [k \in CacheKeys |-> Null]
    /\ lastRestore = Null
    /\ remembered = [phase |-> "fresh", user |-> Null]
    /\ readFailed = {} /\ loggedOut = FALSE
    /\ encInput = Null /\ encBlob = Null /\ encOut = Null
    /\ secOut = Null
    /\ idbUsage = <<>> /\ lsUsage = <<>>
    /\ idbPrefs = Null /\ lsPrefs = Null
    /\ idbQueue = <<>> /\ lsQueue = <<>>
    /\ backends = {}
    /\ swCaches = [static |-> {}, dynamic |-> {}]
    /\ fetchOut = Null
    /\ swOldCaches = {}
    /\ swState = "parsed"
    /\ skipWaiting = FALSE
    /\ msgOut = Null
    /\ pendingSync = <<>> /\ pendingKey = 0
    /\ syncPc = "idle" /\ pendingData = <<>> /\ processed = <<>>
    /\ queuedAtSync = Null
    /\ usageSerial = 0
    /\ isUpdating = FALSE /\ dcCalls = <<>>
    /\ manualCalls = [e \in ManualTokens |-> [pc |-> "new", pending |-> <<>>]]
    /\ pendingStore = [idb |-> [k \in {PendingKey} |-> Null],
                       ls |-> [k \in {PendingKey} |-> Null]]
    /\ rtCalls = <<>> /\ monPaused = FALSE /\ monUsage = Null
    /\ queryOut = Null
    /\ lsLegacy = NoLegacy
    /\ secExtra = [idb |-> [k \in ImportKeys |-> Null],
                   ls |-> [k \in ImportKeys |-> Null]]
    /\ migratePc = "pending"
    /\ imports = [k \in LegacyKeys |-> <<>>]
    /\ sweep = [pc |-> "idle", at |-> 0, failed |-> FALSE]
    /\ isAuthenticated = FALSE
    /\ updateInterval = FALSE

Next ==
    \/ Storage_initializeEncryption
    \/ Storage_initializeIndexedDB
    \/ \E readOk \in ReadOutcomes : Manual_checkExistingSession(readOk)
    \/ Google_libraryTimeout
    \/ \E readOk \in ReadOutcomes : Google_checkExistingSession(readOk)
    \/ Auth_init
    \/ \E email \in Emails, authType \in AuthTypes, rememberMe \in BOOLEAN,
          writeOk \in WriteOutcomes :
          Manual_handleLogin(email, authType, rememberMe, writeOk)
    \/ \E email \in Emails, writeOk \in WriteOutcomes :
          Google_handleCredentialResponse(email, writeOk)
    \/ Auth_signOut
    \/ Auth_refreshAuthStatus
    \/ Google_tokenMonitor
    \/ Monitor_init
    \/ Monitor_autoLogin
    \/ \E email \in Emails, rememberMe \in BOOLEAN, isValid \in BOOLEAN :
          Monitor_handleLogin(email, rememberMe, isValid)
    \/ Monitor_handleLogout
    \/ Monitor_clearSavedData
    \/ \E d \in Jumps : Tick(d)
    \/ Restart

Spec == Init /\ [][Next]_vars

\* The cache collection on its own: the storage manager starts, the
\* application reads and writes the cache, the page reloads.
InitCache == Init /\ app = "pwa" /\ cryptoAvail

NextCache ==
    \/ Storage_initializeEncryption
    \/ Storage_initializeIndexedDB
    \/ \E key \in CacheKeys, data \in Payloads :
          Cache_setCacheData(key, data)
    \/ \E key \in CacheKeys, readOk \in ReadOutcomes :
          Cache_getCacheData(key, readOk)
    \/ \E key \in CacheKeys : Cache_removeCacheData(key)
    \/ Cache_cleanExpiredCache
    \/ \E d \in CacheJumps : CacheTick(d)
    \/ CacheRestart

SpecCache == InitCache /\ [][NextCache]_vars

InitCrypto == Init /\ app = "pwa" /\ cryptoAvail
SpecCrypto == InitCrypto /\ [][NextCrypto]_vars

InitSecure == Init /\ app = "pwa"
SpecSecure == InitSecure /\ [][NextSecure]_vars

InitStore == Init /\ app = "pwa" /\ cryptoAvail
SpecStore == InitStore /\ [][NextStore]_vars

InitSync == Init /\ app = "pwa" /\ cryptoAvail
SpecSync == InitSync /\ [][NextSync]_vars

InitUsage == Init /\ app = "pwa" /\ cryptoAvail
SpecUsage == InitUsage /\ [][NextUsage]_vars

InitUsageSeries == Init /\ app = "pwa" /\ cryptoAvail
SpecUsageSeries == InitUsageSeries /\ [][NextUsageSeries]_vars

InitQuery == Init /\ app = "pwa" /\ cryptoAvail
SpecQuery == InitQuery /\ [][NextQuery]_vars

InitMigrate == Init /\ app = "pwa" /\ cryptoAvail
SpecMigrate == InitMigrate /\ [][NextMigrate]_vars

InitSession == Init /\ app = "pwa" /\ cryptoAvail
SpecSession == InitSession /\ [][NextSession]_vars

\* The event loop runs the callbacks that are due: the steps of a sweep
\* under way are taken.  A failure of a transaction is never due.
InitSweep == Init /\ app = "pwa" /\ cryptoAvail
SpecSweepLive ==
    /\ InitSweep /\ [][NextSweep]_vars
    /\ WF_vars(Sweep_localLoop)
    /\ WF_vars(Sweep_cursorStep)
    /\ WF_vars(Sweep_cursorEnd)

InitUpdate == Init /\ cryptoAvail
SpecUpdate == InitUpdate /\ [][NextUpdate]_vars

InitFetch == Init /\ cryptoAvail
SpecFetch == InitFetch /\ [][NextFetch]_vars

(***************************************************************************)
(* Properties                                                              *)
(***************************************************************************)
HasExpiry(r) == "expires_at" \in DOMAIN r \/ "expiry" \in DOMAIN r
ExpiryOf(r) == IF "expires_at" \in DOMAIN r THEN r.expires_at ELSE r.expiry

\* C1: no restore operation (ManualAuthManager.checkExistingSession,
\* GoogleAuthManager.checkExistingSession, AuthManager.checkExistingAuth,
\* StorageManager.getCredentials at start) returns or installs a record whose
\* expiry time is in the past.
C1_RestoreNeverExpired ==
    (lastRestore # Null /\ HasExpiry(lastRestore))
        => ~(ExpiryOf(lastRestore) < now)

\* A restore has installed a record after a page load, time having passed
\* since the first start.
C1_Witness ==
    /\ lastRestore # Null
    /\ HasExpiry(lastRestore)
    /\ restarts > 0
    /\ ticks > 0

\* C2: a getCacheData(k) that returns a value returns the payload of the
\* latest setCacheData(k, ...), and only while now <= its expires; past its
\* expires the result is null.
C2_CacheReturnsLatestFresh ==
    cacheResult # Null =>
        LET latest == lastSet[cacheResult.key]
        IN  /\ cacheResult.value # NullData =>
                  /\ latest # Null
                  /\ cacheResult.value = latest.data
                  /\ now <= latest.expires
            /\ (latest # Null /\ now > latest.expires) =>
                  cacheResult.value = NullData

\* A getCacheData has returned a payload.
C2_Witness == cacheResult # Null /\ cacheResult.value # NullData

RememberedStartSettled ==
    /\ remembered.phase = "restarted"
    /\ PwaQuiescent
    /\ now < remembered.user.expires_at
    /\ db
    /\ idbSecure # Null
    /\ readFailed = {}

\* C4: from empty storage, a login with rememberMe = true and then a page
\* load within the record's lifetime end, once the start has settled, with
\* the user signed in under the e-mail of the login.
C4_RememberedLoginRestored ==
    RememberedStartSettled
        => /\ Auth_isSignedIn
           /\ authUser.email = remembered.user.email

\* The start after the remembered login has settled and the user is signed
\* in again.
C4_Witness == RememberedStartSettled /\ Auth_isSignedIn

\* C5: a successful login leaves a record in persistent storage exactly when
\* rememberMe was requested, and a session record in both cases.
C5_PersistedIffRememberMe ==
    [][/\ \A email \in Emails, authType \in AuthTypes, rememberMe \in BOOLEAN :
            Manual_handleLogin(email, authType, rememberMe, TRUE) =>
                /\ (idbSecure' # Null \/ lsSecure' # Null) <=> rememberMe
                /\ manualUser' # Null
       /\ \A email \in Emails, rememberMe \in BOOLEAN :
            Monitor_handleLogin(email, rememberMe, TRUE) =>
                /\ (monCreds' # Null) <=> rememberMe
                /\ monSession' # Null]_vars

\* A login without rememberMe has succeeded.
C5_Witness ==
    /\ manualUser # Null
    /\ ~manualUser.remember_me
    /\ manualUser.auth_time = now
    /\ authMethod = "manual"

\* C6: after an explicit logout, and until the next login, neither a
\* persisted record nor a session record remains and no start restores a
\* session.
C6_LogoutClearsEverything ==
    loggedOut =>
        IF app = "pwa"
        THEN /\ idbSecure = Null /\ lsSecure = Null
             /\ manualUser = Null /\ googleUser = Null /\ authUser = Null
        ELSE /\ monCreds = Null /\ monSession = Null
             /\ monScreen # "dashboard"

\* A start after an explicit logout has settled.
C6_Witness == loggedOut /\ restarts > 0 /\ Quiescent

\* A credential record whose expiry time is in the past is in storage.
ExpiredStored ==
    \E rec \in {idbSecure, lsSecure} :
        rec # Null /\ rec.data.expires_at < now

\* C7: when storage holds a record whose expiry time is in the past,
\* checkExistingSession leaves no such record in storage and the user
\* signed out.
C7_ExpiredRecordRemoved ==
    [][(manualPc = "init" /\ manualPc' = "done" /\ ExpiredStored)
          => (~ExpiredStored' /\ ~Manual_isSignedIn')]_vars

\* C8: a record created by a login expires sessionTTL after its creation:
\* 24 hours without rememberMe, at most 30 days with it.
C8_SessionTTL ==
    [][/\ \A email \in Emails, authType \in AuthTypes, rememberMe \in BOOLEAN :
            Manual_handleLogin(email, authType, rememberMe, TRUE) =>
                LET ttl == manualUser'.expires_at - manualUser'.auth_time
                IN  IF rememberMe THEN ttl <= PasswordTTL(TRUE)
                    ELSE ttl = OneDay
       /\ \A email \in Emails, rememberMe \in BOOLEAN :
            Monitor_handleLogin(email, rememberMe, TRUE) =>
                LET ttl == monSession'.expiry - monSession'.createdAt
                IN  IF rememberMe THEN ttl <= PasswordTTL(TRUE)
                    ELSE ttl = OneDay]_vars

\* An API-key login without rememberMe has succeeded.
C8_Witness ==
    /\ manualUser # Null
    /\ manualUser.auth_method = "api_key"
    /\ ~manualUser.remember_me

C10_SecureDataEncrypted ==
    \A rec \in {idbSecure, lsSecure} : rec # Null => rec.form = "aes"

\* A secure record has been written.
C10_Witness == idbSecure # Null \/ lsSecure # Null

(***************************************************************************)
(* C11: getSecureData returns null whenever no record exists for the key   *)
(* or the decryption of the stored record fails, and whatever it returns   *)
(* otherwise is the value decryption produced: a failed decryption never   *)
(* hands partial, default or substituted data to the caller.               *)
(***************************************************************************)
C11_NullOnMissingOrFailed ==
    secOut # Null =>
        /\ (secOut.record = Null \/ ~secOut.decrypted.ok)
              => secOut.value = Null
        /\ secOut.value # Null
              => /\ secOut.record # Null
                 /\ secOut.decrypted = Ok(secOut.value)

\* a stored record was read and its decryption failed
C11_Witness ==
    /\ secOut # Null
    /\ secOut.record # Null
    /\ ~secOut.decrypted.ok
    /\ secOut.value = Null

(***************************************************************************)
(* C12: decryption returns a plaintext only for an unmodified blob that    *)
(* encryption produced under the same password or key.  For a blob with    *)
(* one byte changed, and for any other password or key, decryption fails   *)
(* with an error and returns no data.                                      *)
(***************************************************************************)
C12_DecryptOnlyUnmodifiedSameSecret ==
    (encOut # Null /\ encOut.result.ok)
        => (~encBlob.altered /\ encOut.secret = encInput.secret)

\* a blob with one byte changed was handed to decryption
C12_Witness == encOut # Null /\ encBlob.altered

(***************************************************************************)
(* C13: for every JSON-serializable value v and every password p,          *)
(* encrypt(v, p) yields a blob and decrypt of that blob under p yields v.  *)
(***************************************************************************)
C13_RoundTrip ==
    (/\ encInput # Null
     /\ encInput.service = "CryptoUtils"
     /\ IsJsonSerializable(encInput.data))
        => /\ encBlob.result.ok
           /\ (encOut # Null /\ ~encBlob.altered
                   /\ encOut.secret = encInput.secret)
                 => encOut.result = Ok(encInput.data)

\* a blob of CryptoUtils.encrypt went through decrypt under its password
C13_Witness ==
    /\ encOut # Null
    /\ encInput.service = "CryptoUtils"
    /\ IsJsonSerializable(encInput.data)
    /\ ~encBlob.altered
    /\ encOut.secret = encInput.secret
    /\ encOut.result = Ok(encInput.data)

(***************************************************************************)
(* C14: once the encryption key of the device has been created, every      *)
(* later session holds that same key, the key in memory is the key that    *)
(* is persisted, and no stored secure record is encrypted under a key a    *)
(* later session cannot reconstruct.                                       *)
(***************************************************************************)
C14_KeyReconstructable ==
    /\ keyCounter <= 1
    /\ encryptionKey # NoKey => encryptionKey = lsEncKey
    /\ \A rec \in {idbSecure, lsSecure} :
          (rec # Null /\ rec.form = "aes") => rec.kid = lsEncKey

\* a later session holds another key than the one a stored record is under
C14_Witness ==
    /\ restarts > 0
    /\ encryptionKey # NoKey
    /\ \E rec \in {idbSecure, lsSecure} :
          rec # Null /\ rec.form = "aes" /\ rec.kid # encryptionKey

(***************************************************************************)
(* C15: within one session every storage operation is served by the same   *)
(* backend, the operations issued while the initialization started by the  *)
(* constructor is still in progress included.                              *)
(***************************************************************************)
C15_OneBackendPerSession == Cardinality(backends) <= 1

\* an operation was served from localStorage in a session whose
\* initialization then opened IndexedDB
C15_Witness == storagePc = "ready" /\ db /\ "ls" \in backends

(***************************************************************************)
(* C16: when clearAllData has completed, the five collections (secure      *)
(* data, usage records, cache, preferences, sync queue) are empty on the   *)
(* backend that is active, and so is every localStorage fallback key the   *)
(* storage layer writes.                                                   *)
(***************************************************************************)
ObjectStoresEmpty ==
    /\ idbSecure = Null /\ idbCache = NoCache /\ idbPrefs = Null
    /\ idbUsage = <<>> /\ idbQueue = <<>>

FallbackKeysEmpty ==
    /\ lsSecure = Null /\ lsCache = NoCache /\ lsPrefs = Null
    /\ lsUsage = <<>> /\ lsQueue = <<>>

C16_ClearAllDataEmpties ==
    [][Store_clearAllData =>
          /\ db => ObjectStoresEmpty'
          /\ FallbackKeysEmpty']_vars

\* clearAllData has run in this page load (the persisted key is gone, the
\* key in memory is not) over usage records kept in localStorage
C16_Witness ==
    /\ encryptionKey # NoKey /\ lsEncKey = NoKey
    /\ lsSecure = Null /\ lsPrefs = Null
    /\ lsUsage # <<>>

(***************************************************************************)
(* C17: no item leaves the pending-sync queue unless it has been replayed  *)
(* successfully.  Whatever enqueue operations ran while the sync was       *)
(* running, every item that is absent from the queue after the sync was    *)
(* passed to the replay handler.                                           *)
(***************************************************************************)
InPendingSync(id) == \E i \in 1 .. Len(pendingSync) : pendingSync[i].id = id
WasProcessed(id) == \E i \in 1 .. Len(processed) : processed[i].id = id

C17_RemovedOnlyIfReplayed ==
    syncPc = "done" =>
        \A id \in 1 .. pendingKey : InPendingSync(id) \/ WasProcessed(id)

\* a sync has replayed an item and finished, and an item was enqueued
\* after the sync had read the queue
C17_Witness ==
    /\ syncPc = "done"
    /\ Len(processed) > 0
    /\ pendingKey > Len(processed)

(***************************************************************************)
(* C18: a sync replays every item that was enqueued through the storage    *)
(* layer's sync queue, in the order of enqueueing; the replay handler      *)
(* cannot fail, so nothing else is replayed and nothing is left out.       *)
(***************************************************************************)
ProcessedData == [i \in 1 .. Len(processed) |-> processed[i].data]

C18_QueueReplayedInOrder ==
    syncPc = "done" => ProcessedData = queuedAtSync

\* a sync has finished that started over a storage-layer queue with items
C18_Witness == syncPc = "done" /\ queuedAtSync # <<>>

(***************************************************************************)
(* C19: every intercepted request is handled by exactly one of the three   *)
(* strategies, chosen in the order network-first, cache-first,             *)
(* stale-while-revalidate: URLs of the authentication providers and of     *)
(* the API path are network-first, the application's own assets of the     *)
(* install manifest (such as /index.html) are cache-first, everything      *)
(* else is stale-while-revalidate.                                         *)
(***************************************************************************)
IsOwnManifestAsset(url) ==
    \E a \in STATIC_ASSETS : a[1] = "/" /\ url = Absolute(a)

C19_OneStrategyByClass ==
    (fetchOut # Null /\ app = "pwa") =>
        LET url == fetchOut.request.url
        IN  fetchOut.strategy =
                IF isNetworkFirst(url) THEN "networkFirst"
                ELSE IF IsOwnManifestAsset(url) THEN "cacheFirst"
                ELSE "staleWhileRevalidate"

\* the worker has answered a request for the markup shell
C19_Witness ==
    /\ fetchOut # Null /\ app = "pwa"
    /\ fetchOut.request = Request(<<Origin, "/", "index.html">>, "GET")

(***************************************************************************)
(* C20: a network-first request is answered with the network's response    *)
(* when the fetch succeeds, with the cached response when the fetch fails  *)
(* and the cache has one, and with a synthetic 503 response that carries   *)
(* offline: true when the cache misses as well.                            *)
(***************************************************************************)
C20_NetworkFirstFallback ==
    (fetchOut # Null /\ fetchOut.strategy = "networkFirst") =>
        fetchOut.response =
            IF fetchOut.net # "fail" THEN NetworkResponse(fetchOut.net)
            ELSE IF fetchOut.wasCached THEN CacheResponse
            ELSE OfflineResponse

\* a network-first request met a failed fetch and an empty cache
C20_Witness ==
    /\ fetchOut # Null
    /\ fetchOut.strategy = "networkFirst"
    /\ fetchOut.net = "fail"
    /\ ~fetchOut.wasCached

(***************************************************************************)
(* C21: once the install has stored /index.html, a request for             *)
(* /index.html made while the network is unavailable is answered from the  *)
(* cache, with the body the cache holds.                                   *)
(***************************************************************************)
C21_ShellServedOffline ==
    ( /\ fetchOut # Null
      /\ fetchOut.request = Request(<<Origin, "/", "index.html">>, "GET")
      /\ fetchOut.net = "fail"
      /\ fetchOut.staticBody # NoBody ) =>
        /\ fetchOut.response = CacheResponse
        /\ fetchOut.body \in {fetchOut.staticBody, fetchOut.dynamicBody}

\* /index.html was asked for offline after an install that stored it
C21_Witness ==
    /\ fetchOut # Null
    /\ fetchOut.request = Request(<<Origin, "/", "index.html">>, "GET")
    /\ fetchOut.net = "fail"
    /\ fetchOut.staticBody = InstallBody

(***************************************************************************)
(* C22: when the installation of the worker completes, every asset of the  *)
(* manifest is in the static cache.                                        *)
(***************************************************************************)
ManifestCached(c) ==
    \A a \in IF app = "pwa" THEN STATIC_ASSETS ELSE MONITOR_STATIC_ASSETS :
        cacheHas(c.static, Absolute(a))

C22_InstalledMeansCached ==
    [][(swState = "parsed" /\ swState' = "installed") =>
           ManifestCached(swCaches')]_vars

\* an installation has completed although cache.addAll failed
C22_Witness == swState = "installed" /\ ~skipWaiting

C25_MessageActedAndAnswered ==
    msgOut # Null => (msgOut.acted /\ msgOut.reply # Null)

\* the page has asked the worker for its version
C25_Witness == msgOut # Null /\ msgOut.type = "CHECK_VERSION"

(***************************************************************************)
(* C26: whatever the caches hold and whatever the network does, the fetch  *)
(* listener answers an intercepted request with a response: a cached one,  *)
(* the network's, or one it has made itself.                               *)
(***************************************************************************)
C26_AlwaysAResponse ==
    (fetchOut # Null /\ fetchOut.strategy # "none") =>
        fetchOut.response # NetworkError

\* an intercepted request found neither the network nor a cached copy
C26_Witness ==
    /\ fetchOut # Null
    /\ fetchOut.strategy = "cacheFirst"
    /\ fetchOut.net = "fail"
    /\ ~fetchOut.wasCached

(***************************************************************************)
(* C27: at most one update of the usage data is under way at any time: a   *)
(* tick of the polling timer, a resume or a manual refresh that comes      *)
(* while an update still waits does not begin a second one.                *)
(***************************************************************************)
UpdatesInFlight == IF app = "pwa" THEN Len(dcCalls) ELSE Len(rtCalls)

C27_OneUpdateInFlight == UpdatesInFlight <= 1

\* an update has ended that another update was under way with
C27_Witness == monUsage # Null /\ monUsage.others > 0

(***************************************************************************)
(* C28: the cache is never the only holder of usage data: no expiry,       *)
(* eviction or clearing of a cache record loses an entry the application   *)
(* has taken, such as one of addManualEntry.                               *)
(***************************************************************************)
\* Where an entry may be: in the usage records, in the cache record of the
\* pending entries, or in the hands of a call that is under way.
InUsageRecords(tokens) ==
    \/ \E i \in DOMAIN idbUsage :
          idbUsage[i].source = "manual" /\ idbUsage[i].tokens = tokens
    \/ \E i \in DOMAIN lsUsage :
          lsUsage[i].source = "manual" /\ lsUsage[i].tokens = tokens

InSeq(tokens, entries) == \E i \in DOMAIN entries : entries[i].tokens = tokens

InPendingCache(tokens) ==
    PendingCache # Null /\ InSeq(tokens, PendingCache.data)

InCallUnderWay(tokens) ==
    \/ \E i \in DOMAIN dcCalls : InSeq(tokens, dcCalls[i].pendingEntries)
    \/ \E e \in ManualTokens : InSeq(tokens, manualCalls[e].pending)

C28_AcceptedEntryNeverLost ==
    \A tokens \in ManualTokens :
        manualCalls[tokens].pc = "added" =>
            \/ InUsageRecords(tokens)
            \/ InPendingCache(tokens)
            \/ InCallUnderWay(tokens)

\* an entry was taken and the record of the pending entries has run out
C28_Witness ==
    \E tokens \in ManualTokens :
        /\ manualCalls[tokens].pc = "added"
        /\ InPendingCache(tokens)
        /\ now > PendingCache.expires

(***************************************************************************)
(* C29: on the localStorage fallback the list of usage records holds at    *)
(* most 1000 records after any series of storeUsageData calls, and they    *)
(* are the records stored last, in the order they were stored in.          *)
(***************************************************************************)
C29_FallbackKeepsNewest ==
    (storagePc = "ready" /\ ~db) =>
        /\ Len(lsUsage) = IF usageSerial < UsageKeep THEN usageSerial
                          ELSE UsageKeep
        /\ \A i \in DOMAIN lsUsage :
              lsUsage[i].id = usageSerial - Len(lsUsage) + i

\* more records than the cap were stored on the fallback
C29_Witness ==
    ~db /\ usageSerial > UsageKeep /\ Len(lsUsage) = UsageKeep

(***************************************************************************)
(* C30: storeUsageData only appends: a call adds one record and leaves     *)
(* the records stored before as they are, and it gives the record an id    *)
(* and a timestamp only when the record handed over carries none.          *)
(***************************************************************************)
ActiveUsage == IF db THEN idbUsage ELSE lsUsage

\* the records of a list, as a set
Records(list) == {list[i] : i \in DOMAIN list}

StoredAs(data, r) ==
    /\ r.source = data.source /\ r.tokens = data.tokens
    /\ r.id # 0 /\ r.timestamp # 0
    /\ data.id # 0 => r.id = data.id
    /\ data.timestamp # 0 => r.timestamp = data.timestamp

C30_StoreOnlyAppends ==
    [][\A data \in UsageInputs :
          Store_storeUsageData(data) =>
              /\ Len(ActiveUsage') = Len(ActiveUsage) + 1
              /\ Records(ActiveUsage) \subseteq Records(ActiveUsage')
              /\ \E r \in Records(ActiveUsage') : StoredAs(data, r)]_vars

\* a manual entry that carried its own timestamp was stored later on
C30_Witness ==
    \E r \in Records(idbUsage) \cup Records(lsUsage) :
        r.source = "manual" /\ r.timestamp > Date_now(0)

(***************************************************************************)
(* C31: getUsageData(filters) returns the stored records that satisfy      *)
(* every filter supplied (the date within [startDate, endDate], the        *)
(* source, the model), all of them when none is supplied, in the order     *)
(* they were inserted in.                                                  *)
(***************************************************************************)
Satisfies(item, filters) ==
    /\ filters.startDate # 0 => item.date >= filters.startDate
    /\ filters.endDate # 0 => item.date <= filters.endDate
    /\ filters.source # "" => item.source = filters.source
    /\ filters.model # "" => item.model = filters.model

\* The records of a list that satisfy the filters, in the order of the list.
Satisfying(list, filters) ==
    LET Test(item) == Satisfies(item, filters)
    IN  SelectSeq(list, Test)

\* storeUsageData stamps each record with the time it is stored at.
InInsertionOrder(list) ==
    \A i, j \in DOMAIN list : i < j => list[i].timestamp <= list[j].timestamp

C31_QueryReturnsMatchesInOrder ==
    (queryOut # Null /\ queryOut.readOk) =>
        /\ queryOut.result = Satisfying(queryOut.stored, queryOut.filters)
        /\ InInsertionOrder(queryOut.result)

\* a query with a filter has returned some of the stored records, not all
C31_Witness ==
    /\ queryOut # Null /\ queryOut.readOk
    /\ queryOut.filters.source # ""
    /\ queryOut.result # <<>>
    /\ Len(queryOut.result) < Len(queryOut.stored)

(***************************************************************************)
(* C32: a legacy flat record that the first initialization after the       *)
(* upgrade imports into the secure collection is imported once, is gone    *)
(* from flat storage, and is not lost: the secure-storage API returns it   *)
(* under the key the application reads (the key of APP_CONFIG.storageKeys  *)
(* it was stored under); later runs do not import it again.                *)
(***************************************************************************)
\* getSecureData(key), the read succeeding
Retrieved(key) ==
    getSecureData(secureRecords(key), db, encryptionKey, TRUE).value

C32_LegacyImportedOnceAndKept ==
    \A k \in LegacyKeys :
        (migratePc = "done" /\ imports[k] # <<>>) =>
            /\ Len(imports[k]) = 1
            /\ lsLegacy[k] = NoItem
            /\ Retrieved(k) = imports[k][1]

\* the profile was imported, and the page has been loaded again since
C32_Witness ==
    /\ migratePc = "done" /\ restarts > 0
    /\ imports[storageKeys_userProfile] # <<>>

(***************************************************************************)
(* C33: a session restore keeps the authentication method: a profile that  *)
(* a manual login stored is restored as a manual session only and a        *)
(* Google profile as a Google session only, so that after a restore        *)
(* AuthManager.getAuthMethod() is the method the stored profile records.   *)
(***************************************************************************)
\* The method a profile records: 'google', or 'manual' for the manual
\* manager's password and API-key logins.
MethodOf(userProfile) ==
    IF userProfile.auth_method = "google" THEN "google" ELSE "manual"

C33_RestoreKeepsMethod ==
    /\ manualUser # Null => MethodOf(manualUser) = "manual"
    /\ googleUser # Null => MethodOf(googleUser) = "google"
    /\ authUser # Null => authMethod = MethodOf(authUser)

\* a page load has restored a session into AuthManager
C33_Witness ==
    /\ restarts > 0
    /\ authUser # Null /\ lastRestore = authUser
    /\ authPc = "ready"

(***************************************************************************)
(* C34: when a user signs in with one method while the other method is     *)
(* signed in, the other method is signed out and the profile stored for    *)
(* the new user outlives that sign-out: the switch done, the stored        *)
(* profile is the new user's (so that a page load restores the new         *)
(* session).                                                               *)
(***************************************************************************)
OtherSignedIn(method) ==
    \/ method = "google" /\ Manual_isSignedIn
    \/ method = "manual" /\ Google_isSignedIn

\* A sign-in of the login screen that AuthManager has handled.
SignInStep ==
    /\ app = "pwa" /\ PwaQuiescent
    /\ screen = "login" /\ screen' = "dashboard"
    /\ authUser' # Null

C34_SwitchKeepsNewProfile ==
    [][(SignInStep /\ OtherSignedIn(authMethod')) =>
          /\ authMethod' = "google" => manualUser' = Null
          /\ authMethod' = "manual" => googleUser' = Null
          /\ (IF db' THEN idbSecure' ELSE lsSecure') # Null
          /\ (IF db' THEN idbSecure' ELSE lsSecure').data = authUser']_vars

\* a sign-in has signed the other method out
C34_Witness ==
    /\ app = "pwa" /\ PwaQuiescent
    /\ authUser # Null /\ lastRestore # authUser /\ ~loggedOut
    /\ \/ authMethod = "google" /\ googleUser = authUser /\ manualUser = Null
       \/ authMethod = "manual" /\ manualUser = authUser /\ googleUser = Null
    /\ idbSecure = Null /\ lsSecure = Null

(***************************************************************************)
(* C35: every auth event handled, Application.state.isAuthenticated is     *)
(* AuthManager.isSignedIn(): true after a sign-in and after a silent       *)
(* session restore, false after a sign-out by logout, by expiry or by the  *)
(* active method's sign-out event.                                         *)
(***************************************************************************)
C35_AppFollowsAuthManager ==
    app = "pwa" => (isAuthenticated <=> Auth_isSignedIn)

\* a sign-in has reached the Application, and a sign-out after it
C35_Witness ==
    /\ app = "pwa" /\ authPc = "ready"
    /\ \/ isAuthenticated /\ Auth_isSignedIn
       \/ loggedOut /\ ~isAuthenticated /\ ~Auth_isSignedIn

(***************************************************************************)
(* C36: the sign-out done, the data collector's polling is stopped: no     *)
(* update begins and no usage record or cache entry is written until the   *)
(* next sign-in.                                                           *)
(***************************************************************************)
SignedOut ==
    /\ app = "pwa" /\ PwaQuiescent
    /\ loggedOut /\ ~Auth_isSignedIn

C36_SignOutStopsPolling ==
    [][(SignedOut /\ dcCalls = <<>>) =>
          /\ ~updateInterval
          /\ dcCalls' = <<>>
          /\ idbUsage' = idbUsage /\ lsUsage' = lsUsage
          /\ pendingStore' = pendingStore]_vars

\* a sign-out after a session in which an update stored a record
C36_Witness ==
    /\ SignedOut /\ dcCalls = <<>>
    /\ Len(IF db THEN idbUsage ELSE lsUsage) > 0

(***************************************************************************)
(* C37: every call of the sweep cleanExpiredCache completes in the end     *)
(* (its promise settles), on both backends, and has then removed every     *)
(* cache entry that had expired when it started.                           *)
(***************************************************************************)
ActiveCache == IF db THEN idbCache ELSE lsCache

ExpiredAt(record, t) == record # Null /\ t > record.expires

C37_SweepSettles ==
    /\ (sweep.pc = "running") ~> (sweep.pc = "settled")
    /\ []((sweep.pc = "settled" /\ ~sweep.failed) =>
             \A k \in CacheKeys : ~ExpiredAt(ActiveCache[k], sweep.at))

\* a sweep has begun over a collection that holds an expired entry
C37_Witness ==
    /\ sweep.pc = "running"
    /\ \E k \in CacheKeys : ExpiredAt(ActiveCache[k], sweep.at)

\* C38: Only successful responses are ever written to a service-worker
\* cache: every entry of the static and of the dynamic cache holds a
\* response with an ok status, whatever strategy or sync refresh put it
\* there.
C38_OnlyOkResponsesCached ==
    \A e \in swCaches.static \cup swCaches.dynamic : e.status = 200

\* A response with an error status has come back for an API request of the
\* monitor worker.
C38_Witness ==
    /\ fetchOut # Null
    /\ app # "pwa"
    /\ fetchOut.strategy = "networkFirst"
    /\ fetchOut.net = "error"

(***************************************************************************)
(* C39: every manual entry accepted by addManualEntry is stored as a       *)
(* usage record exactly once, for every interleaving of addManualEntry     *)
(* calls with a running performUpdate: the entry is never in the usage     *)
(* records twice, and as long as it is not there it is still on its way    *)
(* (in the pending record or in the hands of a call).                      *)
(***************************************************************************)
TimesStored(tokens) ==
    Cardinality({i \in DOMAIN ActiveUsage :
                    /\ ActiveUsage[i].source = "manual"
                    /\ ActiveUsage[i].tokens = tokens})

C39_AcceptedEntryStoredOnce ==
    \A tokens \in ManualTokens :
        manualCalls[tokens].pc = "added" =>
            /\ TimesStored(tokens) <= 1
            /\ TimesStored(tokens) = 0 =>
                  (InPendingCache(tokens) \/ InCallUnderWay(tokens))

\* an entry was taken while an update was between its read of the pending
\* entries and its removal of them
C39_Witness ==
    \E tokens \in ManualTokens, i \in DOMAIN dcCalls :
        /\ manualCalls[tokens].pc = "added"
        /\ dcCalls[i].pc \in {"store", "remove"}
        /\ InPendingCache(tokens)
        /\ ~InSeq(tokens, dcCalls[i].pendingEntries)

====
